---- MODULE Spec2Model ----
(***************************************************************************)
(* Cola<T>: bounded, thread-safe FIFO with blocking pop, timeout and       *)
(* cooperative shutdown (include/cola.h, include/cola.ipp).                *)
(*                                                                         *)
(* Every thread is a small program counter machine.  A thread that is idle *)
(* may call push, pop, shutdown, get_size or is_empty; the call blocks     *)
(* until the mutex is free, so the call and the lock acquisition are one   *)
(* step.  The critical section of each method is a second step, and the    *)
(* condition-variable wait of pop is split into block / wake / re-acquire  *)
(* / re-check, as std::condition_variable::wait_for(lock, d, pred) does.   *)
(*                                                                         *)
(* Time is discrete.  Every pop carries the time that remains until its    *)
(* deadline and the time elapsed since it was called.                      *)
(***************************************************************************)
EXTENDS Integers, Sequences, FiniteSets, TLC

\* ---------------------------------------------------------------- bounds
NProducers == 1
NConsumers == 2
MaxCap == 2
MaxPush == 3
MaxPop == 2
MaxShutdown == 2
MaxRead == 1
MaxTimeout == 2
MaxStart == 2
MaxStop == 2
MaxWork == 2

\* Producer threads push, query and shut the queue down (the main thread of
\* main.cpp and of the tests); consumer threads pop (the workers).
Producers == 1..NProducers
Consumers == (NProducers + 1)..(NProducers + NConsumers)
Threads == Producers \cup Consumers
Timeouts == 1..MaxTimeout

\* ------------------------------------------------------------- constants
NoThread == 0
NoVal == -1
\* Worker<T>: the timeout of every pop of the consume loop, in seconds.
DEFAULT_WAIT_TIMEOUT == 5

VARIABLES
    max_size,       \* Cola::max_size
    buffer,         \* Cola::buffer (std::deque<T>), head first
    shutting_down,  \* Cola::shutting_down
    mtx,            \* Cola::mtx: the thread that holds it, or NoThread
    pc,             \* per thread: where it is
    dato,           \* per thread: argument of the push in progress
    timeout,        \* per thread: argument of the pop in progress
    remaining,      \* per thread: time left until the pop's deadline
    elapsed,        \* per thread: time since the pop was called, up to its timeout
    result,         \* per thread: PopResult of the last pop that returned
    out,            \* per thread: the caller's out parameter
    ret,            \* per thread: value returned by the last get_size / is_empty,
                    \* with the number of items buffered when it was taken
    next_val,       \* next value a producer pushes (0, 1, 2, ...)
    nPop,           \* number of pop calls so far
    nShutdown,      \* number of shutdown calls so far
    nRead,          \* number of get_size / is_empty calls so far
    found,          \* per thread: what its pop saw when it first evaluated the predicate
    pushed_during,  \* per thread: a push completed while its pop was blocked
    hist,           \* completed queue operations, in lock order
    running,        \* per worker: Worker::running (std::atomic<bool>)
    wpc,            \* per worker: where its thread is inside Worker::run
    joinable,       \* per worker: Worker::thread.joinable()
    stopping,       \* per caller: the worker whose stop() it is executing
    wlog,           \* per worker: its starts, pop results, callbacks and stops, in order
    nStart,         \* number of start calls so far
    nStop,          \* number of stop calls so far
    destroyed,      \* per worker: its destructor has completed
    destroying,     \* per caller: the worker whose destructor it is executing
    stopSaw         \* per caller: what the stop() it is executing found when called

\* The state of the workers; the queue's methods leave it alone.
workerVars == <<running, wpc, joinable, stopping, wlog, nStart, nStop,
                destroyed, destroying, stopSaw>>

vars == <<max_size, buffer, shutting_down, mtx, pc, dato, timeout, remaining,
          elapsed, result, out, ret, next_val, nPop, nShutdown, nRead, found, pushed_during, hist,
          running, wpc, joinable, stopping, wlog, nStart, nStop,
          destroyed, destroying, stopSaw>>

\* ------------------------------------------------------------ pure parts

\* Mutant of WaitPredicate: the predicate forgets shutting_down.
WaitPredicateItemsOnly(sd, buf) == buf # <<>>

\* The wait predicate of pop: [this] { return shutting_down || !buffer.empty(); }
WaitPredicate(sd, buf) == sd \/ buf # <<>>

\* Mutants of PushBuffer: "full" tested with > instead of >=; the newest
\* element evicted instead of the oldest; push_front instead of push_back.
PushBufferOffByOne(buf, d, cap) ==
    IF Len(buf) > cap THEN Append(Tail(buf), d) ELSE Append(buf, d)

PushBufferEvictNewest(buf, d, cap) ==
    IF Len(buf) >= cap THEN Append(SubSeq(buf, 1, Len(buf) - 1), d) ELSE Append(buf, d)

PushBufferAtFront(buf, d, cap) ==
    IF Len(buf) >= cap THEN <<d>> \o Tail(buf) ELSE <<d>> \o buf

\* Buffer after push(d) on a queue of capacity cap.
PushBuffer(buf, d, cap) ==
    IF Len(buf) >= cap THEN Append(Tail(buf), d) ELSE Append(buf, d)

\* Mutant of PopAfterWait: buffered items are handed out before SHUTDOWN is reported.
PopAfterWaitDrainFirst(sd, buf) == IF buf # <<>> THEN "OK" ELSE "SHUTDOWN"

\* What pop does once wait_for has returned true:
\*   if (shutting_down) return SHUTDOWN;  ... return OK;
PopAfterWait(sd, buf) == IF sd THEN "SHUTDOWN" ELSE "OK"

\* Mutant of BufferFront: out = buffer.back().
BufferBack(buf) == buf[Len(buf)]

\* out = buffer.front();
BufferFront(buf) == Head(buf)

\* Mutant of BufferPopFront: buffer.pop_back().
BufferPopBack(buf) == SubSeq(buf, 1, Len(buf) - 1)

\* Mutant of BufferPopFront: the front is read and left in place.
BufferPopFrontKeep(buf) == buf

\* buffer.pop_front();
BufferPopFront(buf) == Tail(buf)

\* Mutants of WaitForAfterWake: the deadline is looked at before the predicate,
\* and a timeout returns false without evaluating the predicate again; the
\* predicate is not looped on, so any wake-up that finds it false ends the wait.
WaitForTimeoutFirst(sd, buf, rem) ==
    IF rem = 0 THEN "FALSE"
    ELSE IF WaitPredicate(sd, buf) THEN "TRUE"
    ELSE "WAIT"

WaitForNoLoop(sd, buf, rem) ==
    IF WaitPredicate(sd, buf) THEN "TRUE" ELSE "FALSE"

\* Mutant of WaitForAfterWake: the deadline is never looked at, wait_for
\* returns only when the predicate holds.
WaitForNoDeadline(sd, buf, rem) ==
    IF WaitPredicate(sd, buf) THEN "TRUE" ELSE "WAIT"

\* wait_for(lock, timeout, pred) after a wake-up, with the mutex re-acquired:
\*   while (!pred()) if (wait_until(lock, deadline) == timeout) return pred();
\*   return true;
\* "TRUE": wait_for returns true; "FALSE": it returns false; "WAIT": it blocks again.
WaitForAfterWake(sd, buf, rem) ==
    IF WaitPredicate(sd, buf) THEN "TRUE"
    ELSE IF rem = 0 THEN "FALSE"
    ELSE "WAIT"

\* Mutants of ShutdownBuffer: a repeated shutdown() flushes the buffer; every
\* shutdown() clears it.
ShutdownBufferFlushOnRepeat(sd, buf) == IF sd THEN <<>> ELSE buf

ShutdownBufferClear(sd, buf) == <<>>

\* Buffer after shutdown(): shutdown() has no statement that touches it.
ShutdownBuffer(sd, buf) == buf

\* Value returned by get_size(): return buffer.size();
GetSize(buf) == Len(buf)

\* Mutant of IsEmpty: the test is inverted.
IsEmptyNegated(buf) == buf # <<>>

\* Value returned by is_empty(): return buffer.empty();
IsEmpty(buf) == buf = <<>>

\* Mutant of ShutdownFlag: shutdown() toggles the flag.
ShutdownFlagToggle(sd) == ~sd

\* Value of shutting_down written by shutdown().
ShutdownFlag(sd) == TRUE

InPop(t) == pc[t] \in {"pop_cs", "pop_wait", "pop_woken", "pop_recheck"}
\* Inside wait_for without the mutex: asleep on the condition variable, or
\* woken and waiting for the mutex.
Blocked(t) == pc[t] \in {"pop_wait", "pop_woken"}
Waiters == {t \in Threads : pc[t] = "pop_wait"}

\* Between lock and unlock of the mutex, in any method of the queue.
InCriticalSection(t) ==
    pc[t] \in {"push_cs", "sd_cs", "pop_cs", "pop_recheck", "size_cs", "empty_cs"}

\* What a pop found at its first evaluation of the predicate; NotFound while
\* the thread is not inside pop.
NotFound == [sd |-> FALSE, n |-> NoVal]
\* What a stop() in progress found when it was called: whether the worker's
\* thread was blocked inside pop on an empty queue that was not shut down, and
\* if so the length of the history then; where in run() the thread was (at),
\* and how many events of the worker had been logged (log).
NoSaw == [blocked |-> FALSE, since |-> 0, at |-> "none", log |-> 0]
Found(sd, buf) == [sd |-> sd, n |-> Len(buf)]

\* ------------------------------------------------------------------ Init
Init ==
    /\ max_size \in 1..MaxCap
    /\ buffer = <<>>
    /\ shutting_down = FALSE
    /\ mtx = NoThread
    /\ pc = [t \in Threads |-> "idle"]
    /\ dato = [t \in Threads |-> NoVal]
    /\ timeout = [t \in Threads |-> 0]
    /\ remaining = [t \in Threads |-> 0]
    /\ elapsed = [t \in Threads |-> 0]
    /\ result = [t \in Threads |-> "NONE"]
    /\ out = [t \in Threads |-> NoVal]
    /\ ret = [t \in Threads |-> [op |-> "none"]]
    /\ next_val = 0
    /\ nPop = 0
    /\ nShutdown = 0
    /\ nRead = 0
    /\ found = [t \in Threads |-> NotFound]
    /\ pushed_during = [t \in Threads |-> FALSE]
    /\ hist = <<>>
    /\ running = [w \in Consumers |-> FALSE]
    /\ wpc = [w \in Consumers |-> "none"]
    /\ joinable = [w \in Consumers |-> FALSE]
    /\ stopping = [c \in Producers |-> NoThread]
    /\ wlog = [w \in Consumers |-> <<>>]
    /\ nStart = 0
    /\ nStop = 0
    /\ destroyed = [w \in Consumers |-> FALSE]
    /\ destroying = [c \in Producers |-> NoThread]
    /\ stopSaw = [c \in Producers |-> NoSaw]

\* ------------------------------------------------------------------ push
PushLock(t) ==
    /\ pc[t] = "idle"
    /\ mtx = NoThread
    /\ next_val < MaxPush
    /\ mtx' = t
    /\ pc' = [pc EXCEPT ![t] = "push_cs"]
    /\ dato' = [dato EXCEPT ![t] = next_val]
    /\ next_val' = next_val + 1
    /\ UNCHANGED <<max_size, buffer, shutting_down, timeout, remaining, elapsed,
                   result, out, ret, nPop, nShutdown, nRead, found, pushed_during, hist>>
    /\ UNCHANGED workerVars

\* Mutant of PushBody: a push on a full queue waits for room instead of evicting.
PushBodyWaitsForRoom(t) ==
    /\ pc[t] = "push_cs"
    /\ mtx = t
    /\ Len(buffer) < max_size
    /\ buffer' = Append(buffer, dato[t])
    /\ IF Waiters = {}
         THEN pc' = [pc EXCEPT ![t] = "idle"]
         ELSE \E w \in Waiters : pc' = [pc EXCEPT ![t] = "idle", ![w] = "pop_woken"]
    /\ mtx' = NoThread
    /\ hist' = Append(hist, [op |-> "push", val |-> dato[t],
                             before |-> buffer, after |-> buffer'])
    /\ dato' = [dato EXCEPT ![t] = NoVal]
    /\ pushed_during' = [u \in Threads |-> pushed_during[u] \/ Blocked(u)]
    /\ UNCHANGED <<max_size, shutting_down, timeout, remaining, elapsed,
                   result, out, ret, next_val, nPop, nShutdown, nRead, found>>
    /\ UNCHANGED workerVars

\* Mutant of PushBody: the push notifies nobody.
PushBodyNoNotify(t) ==
    /\ pc[t] = "push_cs"
    /\ mtx = t
    /\ buffer' = PushBuffer(buffer, dato[t], max_size)
    /\ pc' = [pc EXCEPT ![t] = "idle"]
    /\ mtx' = NoThread
    /\ hist' = Append(hist, [op |-> "push", val |-> dato[t],
                             before |-> buffer, after |-> buffer'])
    /\ dato' = [dato EXCEPT ![t] = NoVal]
    /\ pushed_during' = [u \in Threads |-> pushed_during[u] \/ Blocked(u)]
    /\ UNCHANGED <<max_size, shutting_down, timeout, remaining, elapsed,
                   result, out, ret, next_val, nPop, nShutdown, nRead, found>>
    /\ UNCHANGED workerVars

\* Mutant of PushBody: cv.notify_all() instead of cv.notify_one().
PushBodyNotifyAll(t) ==
    /\ pc[t] = "push_cs"
    /\ mtx = t
    /\ buffer' = PushBuffer(buffer, dato[t], max_size)
    /\ pc' = [u \in Threads |->
                IF u = t THEN "idle"
                ELSE IF pc[u] = "pop_wait" THEN "pop_woken"
                ELSE pc[u]]
    /\ mtx' = NoThread
    /\ hist' = Append(hist, [op |-> "push", val |-> dato[t],
                             before |-> buffer, after |-> buffer'])
    /\ dato' = [dato EXCEPT ![t] = NoVal]
    /\ pushed_during' = [u \in Threads |-> pushed_during[u] \/ Blocked(u)]
    /\ UNCHANGED <<max_size, shutting_down, timeout, remaining, elapsed,
                   result, out, ret, next_val, nPop, nShutdown, nRead, found>>
    /\ UNCHANGED workerVars

\* Mutant of PushBody: a push on a queue that is shut down is rejected, the
\* buffer stays as it is and nobody is notified.
PushBodyRejectsAfterShutdown(t) ==
    /\ pc[t] = "push_cs"
    /\ mtx = t
    /\ buffer' = IF shutting_down THEN buffer ELSE PushBuffer(buffer, dato[t], max_size)
    /\ IF Waiters = {} \/ shutting_down
         THEN pc' = [pc EXCEPT ![t] = "idle"]
         ELSE \E w \in Waiters : pc' = [pc EXCEPT ![t] = "idle", ![w] = "pop_woken"]
    /\ mtx' = NoThread
    /\ hist' = Append(hist, [op |-> "push", val |-> dato[t],
                             before |-> buffer, after |-> buffer'])
    /\ dato' = [dato EXCEPT ![t] = NoVal]
    /\ pushed_during' = [u \in Threads |-> pushed_during[u] \/ Blocked(u)]
    /\ UNCHANGED <<max_size, shutting_down, timeout, remaining, elapsed,
                   result, out, ret, next_val, nPop, nShutdown, nRead, found>>
    /\ UNCHANGED workerVars

\* if (size >= max_size) pop_front; push_back; notify_one; unlock
PushBody(t) ==
    /\ pc[t] = "push_cs"
    /\ mtx = t
    /\ buffer' = PushBuffer(buffer, dato[t], max_size)
    /\ IF Waiters = {}
         THEN pc' = [pc EXCEPT ![t] = "idle"]
         ELSE \E w \in Waiters : pc' = [pc EXCEPT ![t] = "idle", ![w] = "pop_woken"]
    /\ mtx' = NoThread
    /\ hist' = Append(hist, [op |-> "push", val |-> dato[t],
                             before |-> buffer, after |-> buffer'])
    /\ dato' = [dato EXCEPT ![t] = NoVal]
    /\ pushed_during' = [u \in Threads |-> pushed_during[u] \/ Blocked(u)]
    /\ UNCHANGED <<max_size, shutting_down, timeout, remaining, elapsed,
                   result, out, ret, next_val, nPop, nShutdown, nRead, found>>
    /\ UNCHANGED workerVars

\* -------------------------------------------------------------- shutdown
ShutdownLock(t) ==
    /\ pc[t] = "idle"
    /\ mtx = NoThread
    /\ nShutdown < MaxShutdown
    /\ mtx' = t
    /\ pc' = [pc EXCEPT ![t] = "sd_cs"]
    /\ nShutdown' = nShutdown + 1
    /\ UNCHANGED <<max_size, buffer, shutting_down, dato, timeout, remaining,
                   elapsed, result, out, ret, next_val, nPop, nRead, found, pushed_during, hist>>
    /\ UNCHANGED workerVars

\* shutting_down = true; lock.unlock();
ShutdownSet(t) ==
    /\ pc[t] = "sd_cs"
    /\ mtx = t
    /\ shutting_down' = ShutdownFlag(shutting_down)
    /\ buffer' = ShutdownBuffer(shutting_down, buffer)
    /\ mtx' = NoThread
    /\ pc' = [pc EXCEPT ![t] = "sd_notify"]
    /\ hist' = Append(hist, [op |-> "shutdown", before |-> shutting_down,
                             after |-> shutting_down',
                             buf |-> buffer, bufAfter |-> buffer'])
    /\ UNCHANGED <<max_size, dato, timeout, remaining, elapsed, result,
                   out, ret, next_val, nPop, nShutdown, nRead, found, pushed_during>>
    /\ UNCHANGED workerVars

\* Mutant of ShutdownNotify: cv.notify_one() instead of cv.notify_all().
ShutdownNotifyOne(t) ==
    /\ pc[t] = "sd_notify"
    /\ IF Waiters = {}
         THEN pc' = [pc EXCEPT ![t] = "idle"]
         ELSE \E w \in Waiters : pc' = [pc EXCEPT ![t] = "idle", ![w] = "pop_woken"]
    /\ UNCHANGED <<max_size, buffer, shutting_down, mtx, dato, timeout, remaining,
                   elapsed, result, out, ret, next_val, nPop, nShutdown, nRead,
                   found, pushed_during, hist>>
    /\ UNCHANGED workerVars

\* cv.notify_all();
ShutdownNotify(t) ==
    /\ pc[t] = "sd_notify"
    /\ pc' = [u \in Threads |->
                IF u = t THEN "idle"
                ELSE IF pc[u] = "pop_wait" THEN "pop_woken"
                ELSE pc[u]]
    /\ UNCHANGED <<max_size, buffer, shutting_down, mtx, dato, timeout, remaining,
                   elapsed, result, out, ret, next_val, nPop, nShutdown, nRead, found, pushed_during, hist>>
    /\ UNCHANGED workerVars

\* ------------------------------------------------------------------- pop
PopLock(t, d) ==
    /\ pc[t] = "idle"
    /\ mtx = NoThread
    /\ mtx' = t
    /\ pc' = [pc EXCEPT ![t] = "pop_cs"]
    /\ timeout' = [timeout EXCEPT ![t] = d]
    /\ remaining' = [remaining EXCEPT ![t] = d]
    /\ elapsed' = [elapsed EXCEPT ![t] = 0]
    /\ result' = [result EXCEPT ![t] = "NONE"]
    /\ nPop' = nPop + 1
    /\ UNCHANGED <<max_size, buffer, shutting_down, dato, out, ret, next_val,
                   nShutdown, nRead, found, pushed_during, hist>>

\* pop called by a thread that is not a worker's.
ConsumerPop(t, d) == nPop < MaxPop /\ PopLock(t, d) /\ UNCHANGED workerVars

\* Mutant of PopReturn: the front of a buffer that holds an item is copied to
\* out before the result is decided, so also when the result is not OK.
PopReturnWritesOut(t, r, f) ==
    /\ result' = [result EXCEPT ![t] = r]
    /\ IF r = "OK"
         THEN /\ out' = [out EXCEPT ![t] = BufferFront(buffer)]
              /\ buffer' = BufferPopFront(buffer)
         ELSE /\ out' = IF buffer # <<>>
                          THEN [out EXCEPT ![t] = BufferFront(buffer)]
                          ELSE out
              /\ UNCHANGED buffer
    /\ hist' = Append(hist, [op |-> "pop", res |-> r,
                             val |-> IF r = "OK" THEN out'[t] ELSE NoVal,
                             before |-> buffer, after |-> buffer',
                             sd |-> shutting_down,
                             found |-> f,
                             expired |-> remaining[t] = 0,
                             early |-> elapsed[t] < timeout[t],
                             waited |-> pc[t] = "pop_recheck",
                             pushed |-> pushed_during[t]])
    /\ pc' = [pc EXCEPT ![t] = "idle"]
    /\ mtx' = NoThread
    /\ timeout' = [timeout EXCEPT ![t] = 0]
    /\ remaining' = [remaining EXCEPT ![t] = 0]
    /\ elapsed' = [elapsed EXCEPT ![t] = 0]
    /\ found' = [found EXCEPT ![t] = NotFound]
    /\ pushed_during' = [pushed_during EXCEPT ![t] = FALSE]

\* pop leaves with result r; the mutex is released by the lock's destructor.
\* f is what the pop found at its first evaluation of the predicate.  The
\* history records the pop as it returns: the buffer before and after,
\* shutting_down, whether the deadline had passed (expired) or was still ahead
\* of the full timeout (early), whether the pop had blocked (waited), and
\* whether a push completed while it was blocked (pushed).
PopReturn(t, r, f) ==
    /\ result' = [result EXCEPT ![t] = r]
    /\ IF r = "OK"
         THEN /\ out' = [out EXCEPT ![t] = BufferFront(buffer)]
              /\ buffer' = BufferPopFront(buffer)
         ELSE UNCHANGED <<out, buffer>>
    /\ hist' = Append(hist, [op |-> "pop", res |-> r,
                             val |-> IF r = "OK" THEN out'[t] ELSE NoVal,
                             before |-> buffer, after |-> buffer',
                             sd |-> shutting_down,
                             found |-> f,
                             expired |-> remaining[t] = 0,
                             early |-> elapsed[t] < timeout[t],
                             waited |-> pc[t] = "pop_recheck",
                             pushed |-> pushed_during[t]])
    /\ pc' = [pc EXCEPT ![t] = "idle"]
    /\ mtx' = NoThread
    /\ timeout' = [timeout EXCEPT ![t] = 0]
    /\ remaining' = [remaining EXCEPT ![t] = 0]
    /\ elapsed' = [elapsed EXCEPT ![t] = 0]
    /\ found' = [found EXCEPT ![t] = NotFound]
    /\ pushed_during' = [pushed_during EXCEPT ![t] = FALSE]

\* wait_for blocks: the mutex is released and the thread joins the waiters.
PopBlock(t, f) ==
    /\ pc' = [pc EXCEPT ![t] = "pop_wait"]
    /\ mtx' = NoThread
    /\ found' = [found EXCEPT ![t] = f]
    /\ UNCHANGED <<buffer, result, out, hist, timeout, remaining, elapsed, pushed_during>>

\* First evaluation of the predicate inside wait_for.
PopFirstCheck(t) ==
    /\ pc[t] = "pop_cs"
    /\ mtx = t
    /\ IF WaitPredicate(shutting_down, buffer)
         THEN PopReturn(t, PopAfterWait(shutting_down, buffer), Found(shutting_down, buffer))
         ELSE PopBlock(t, Found(shutting_down, buffer))
    /\ UNCHANGED <<max_size, shutting_down, dato, ret, next_val, nPop, nShutdown, nRead>>
    /\ UNCHANGED workerVars

\* The deadline of a blocked pop has passed.
TimeoutWake(t) ==
    /\ pc[t] = "pop_wait"
    /\ remaining[t] = 0
    /\ pc' = [pc EXCEPT ![t] = "pop_woken"]
    /\ UNCHANGED <<max_size, buffer, shutting_down, mtx, dato, timeout, remaining,
                   elapsed, result, out, ret, next_val, nPop, nShutdown, nRead, found, pushed_during, hist>>
    /\ UNCHANGED workerVars

\* A condition variable may wake a waiter for no reason.
SpuriousWake(t) ==
    /\ pc[t] = "pop_wait"
    /\ remaining[t] > 0
    /\ pc' = [pc EXCEPT ![t] = "pop_woken"]
    /\ UNCHANGED <<max_size, buffer, shutting_down, mtx, dato, timeout, remaining,
                   elapsed, result, out, ret, next_val, nPop, nShutdown, nRead, found, pushed_during, hist>>
    /\ UNCHANGED workerVars

\* Mutant of PopReacquire: a woken waiter goes on without waiting for the mutex.
PopReacquireNoLock(t) ==
    /\ pc[t] = "pop_woken"
    /\ mtx' = t
    /\ pc' = [pc EXCEPT ![t] = "pop_recheck"]
    /\ UNCHANGED <<max_size, buffer, shutting_down, dato, timeout, remaining,
                   elapsed, result, out, ret, next_val, nPop, nShutdown, nRead, found, pushed_during, hist>>
    /\ UNCHANGED workerVars

\* A woken waiter re-acquires the mutex before wait_until returns.
PopReacquire(t) ==
    /\ pc[t] = "pop_woken"
    /\ mtx = NoThread
    /\ mtx' = t
    /\ pc' = [pc EXCEPT ![t] = "pop_recheck"]
    /\ UNCHANGED <<max_size, buffer, shutting_down, dato, timeout, remaining,
                   elapsed, result, out, ret, next_val, nPop, nShutdown, nRead, found, pushed_during, hist>>
    /\ UNCHANGED workerVars

PopRecheck(t) ==
    /\ pc[t] = "pop_recheck"
    /\ mtx = t
    /\ LET w == WaitForAfterWake(shutting_down, buffer, remaining[t]) IN
         CASE w = "TRUE"  -> PopReturn(t, PopAfterWait(shutting_down, buffer), found[t])
           [] w = "FALSE" -> PopReturn(t, "TIMEOUT", found[t])
           [] OTHER       -> PopBlock(t, found[t])
    /\ UNCHANGED <<max_size, shutting_down, dato, ret, next_val, nPop, nShutdown, nRead>>
    /\ UNCHANGED workerVars

\* ---------------------------------------------------- get_size, is_empty
ReadLock(t, which) ==
    /\ pc[t] = "idle"
    /\ mtx = NoThread
    /\ nRead < MaxRead
    /\ mtx' = t
    /\ pc' = [pc EXCEPT ![t] = which]
    /\ nRead' = nRead + 1
    /\ UNCHANGED <<max_size, buffer, shutting_down, dato, timeout, remaining,
                   elapsed, result, out, ret, next_val, nPop, nShutdown,
                   found, pushed_during, hist>>
    /\ UNCHANGED workerVars

GetSizeBody(t) ==
    /\ pc[t] = "size_cs"
    /\ mtx = t
    /\ ret' = [ret EXCEPT ![t] = [op |-> "size", val |-> GetSize(buffer), n |-> Len(buffer)]]
    /\ mtx' = NoThread
    /\ pc' = [pc EXCEPT ![t] = "idle"]
    /\ UNCHANGED <<max_size, buffer, shutting_down, dato, timeout, remaining,
                   elapsed, result, out, next_val, nPop, nShutdown, nRead, found, pushed_during, hist>>
    /\ UNCHANGED workerVars

IsEmptyBody(t) ==
    /\ pc[t] = "empty_cs"
    /\ mtx = t
    /\ ret' = [ret EXCEPT ![t] = [op |-> "empty", val |-> IsEmpty(buffer), n |-> Len(buffer)]]
    /\ mtx' = NoThread
    /\ pc' = [pc EXCEPT ![t] = "idle"]
    /\ UNCHANGED <<max_size, buffer, shutting_down, dato, timeout, remaining,
                   elapsed, result, out, next_val, nPop, nShutdown, nRead, found, pushed_during, hist>>
    /\ UNCHANGED workerVars

\* ------------------------------------------------------------------ time
Tick ==
    /\ \E t \in Threads : InPop(t) /\ (remaining[t] > 0 \/ elapsed[t] < timeout[t])
    /\ remaining' = [t \in Threads |->
                       IF InPop(t) /\ remaining[t] > 0 THEN remaining[t] - 1
                       ELSE remaining[t]]
    /\ elapsed' = [t \in Threads |->
                     IF InPop(t) /\ elapsed[t] < timeout[t] THEN elapsed[t] + 1
                     ELSE elapsed[t]]
    /\ UNCHANGED <<max_size, buffer, shutting_down, mtx, pc, dato, timeout,
                   result, out, ret, next_val, nPop, nShutdown, nRead, found, pushed_during, hist>>
    /\ UNCHANGED workerVars

\* ------------------------------------------------------------------ Next
Next ==
    \/ \E t \in Producers : PushLock(t)
    \/ \E t \in Producers : PushBody(t)
    \/ \E t \in Producers : ShutdownLock(t)
    \/ \E t \in Producers : ShutdownSet(t)
    \/ \E t \in Producers : ShutdownNotify(t)
    \/ \E t \in Consumers, d \in Timeouts : ConsumerPop(t, d)
    \/ \E t \in Consumers : PopFirstCheck(t)
    \/ \E t \in Consumers : TimeoutWake(t)
    \/ \E t \in Consumers : SpuriousWake(t)
    \/ \E t \in Consumers : PopReacquire(t)
    \/ \E t \in Consumers : PopRecheck(t)
    \/ \E t \in Producers : ReadLock(t, "size_cs")
    \/ \E t \in Producers : ReadLock(t, "empty_cs")
    \/ \E t \in Producers : GetSizeBody(t)
    \/ \E t \in Producers : IsEmptyBody(t)
    \/ Tick

Spec == Init /\ [][Next]_vars

\* Fair scheduling: a thread that can take a step of a method it is executing
\* eventually takes it.  Calling a method is never forced.
FairThreads ==
    /\ \A t \in Producers :
          /\ WF_vars(PushBody(t))
          /\ WF_vars(ShutdownSet(t))
          /\ WF_vars(ShutdownNotify(t))
          /\ WF_vars(GetSizeBody(t))
          /\ WF_vars(IsEmptyBody(t))
    /\ \A t \in Consumers :
          /\ WF_vars(PopFirstCheck(t))
          /\ WF_vars(PopReacquire(t))
          /\ WF_vars(PopRecheck(t))

\* A queue that is never shut down, with a clock that advances and deadlines
\* that fire.
NextClock ==
    \/ \E t \in Producers : PushLock(t)
    \/ \E t \in Producers : PushBody(t)
    \/ \E t \in Consumers, d \in Timeouts : ConsumerPop(t, d)
    \/ \E t \in Consumers : PopFirstCheck(t)
    \/ \E t \in Consumers : TimeoutWake(t)
    \/ \E t \in Consumers : SpuriousWake(t)
    \/ \E t \in Consumers : PopReacquire(t)
    \/ \E t \in Consumers : PopRecheck(t)
    \/ Tick

SpecClock ==
    /\ Init /\ [][NextClock]_vars
    /\ FairThreads
    /\ WF_vars(Tick)
    /\ \A t \in Consumers : WF_vars(TimeoutWake(t))

\* The queue in a world where no timeout ever fires: time stands still.
NextNoTimeout ==
    \/ \E t \in Producers : PushLock(t)
    \/ \E t \in Producers : PushBody(t)
    \/ \E t \in Producers : ShutdownLock(t)
    \/ \E t \in Producers : ShutdownSet(t)
    \/ \E t \in Producers : ShutdownNotify(t)
    \/ \E t \in Consumers, d \in Timeouts : ConsumerPop(t, d)
    \/ \E t \in Consumers : PopFirstCheck(t)
    \/ \E t \in Consumers : SpuriousWake(t)
    \/ \E t \in Consumers : PopReacquire(t)
    \/ \E t \in Consumers : PopRecheck(t)
    \/ \E t \in Producers : ReadLock(t, "size_cs")
    \/ \E t \in Producers : ReadLock(t, "empty_cs")
    \/ \E t \in Producers : GetSizeBody(t)
    \/ \E t \in Producers : IsEmptyBody(t)

SpecNoTimeout == Init /\ [][NextNoTimeout]_vars /\ FairThreads

\* ---------------------------------------------------------------- worker
\* Worker<T> (include/worker.h, include/worker.ipp).  Each consumer thread is
\* the thread of one worker, executing Worker::run; the producer thread is the
\* thread that calls start() and stop(), as main does.

\* The queue's variables other than pc.
queueVars == <<max_size, buffer, shutting_down, mtx, dato, timeout, remaining, elapsed,
               result, out, ret, next_val, nPop, nShutdown, nRead, found, pushed_during, hist>>

\* Mutant of Dispatch: a TIMEOUT is reported as work.
DispatchTimeoutAsWork(res) ==
    CASE res = "OK" -> "trabajo"
      [] res = "TIMEOUT" -> "trabajo"
      [] res = "SHUTDOWN" -> "colaApagada"

\* The callback that run() makes for a pop result (the switch of run()).
Dispatch(res) ==
    CASE res = "OK" -> "trabajo"
      [] res = "TIMEOUT" -> "colaVacia"
      [] res = "SHUTDOWN" -> "colaApagada"

\* Mutant of AfterDispatch: SHUTDOWN breaks out of the switch like the other
\* results, back to the loop test.
AfterDispatchBreak(res) == "loop"

\* Where run() goes after the callback: break (back to the loop test) or return.
AfterDispatch(res) == IF res = "SHUTDOWN" THEN "exited" ELSE "loop"

\* The argument of the callback besides the worker's name.
CallbackArg(cb, data) ==
    CASE cb = "trabajo" -> data
      [] cb = "colaVacia" -> DEFAULT_WAIT_TIMEOUT
      [] OTHER -> NoVal

Log(w, e) == wlog' = [wlog EXCEPT ![w] = Append(@, e)]

\* Some thread is executing stop() or the destructor of worker w.  Worker is
\* not thread-safe (start, stop and the destructor use the std::thread member
\* without a lock): its callers make one call at a time on one worker.
Busy(w) == \E c \in Producers : stopping[c] = w \/ destroying[c] = w

\* Mutant of WorkerStart: the thread is spawned before the flag is set, and the
\* thread makes its first loop test on the flag as it was.
WorkerStartThreadFirst(c, w) ==
    /\ pc[c] = "idle"
    /\ ~destroyed[w]
    /\ ~Busy(w)
    /\ ~joinable[w]
    /\ nStart < MaxStart
    /\ joinable' = [joinable EXCEPT ![w] = TRUE]
    /\ wpc' = [wpc EXCEPT ![w] = "loop"]
    /\ nStart' = nStart + 1
    /\ Log(w, [ev |-> "start"])
    /\ UNCHANGED <<pc, queueVars, running, stopping, nStop, destroyed, destroying, stopSaw>>

\* start(): running = true; thread = std::thread(&Worker<T>::run, this);
\* Called on a worker that has no thread.
WorkerStart(c, w) ==
    /\ pc[c] = "idle"
    /\ ~destroyed[w]
    /\ ~Busy(w)
    /\ ~joinable[w]
    /\ nStart < MaxStart
    /\ running' = [running EXCEPT ![w] = TRUE]
    /\ joinable' = [joinable EXCEPT ![w] = TRUE]
    /\ wpc' = [wpc EXCEPT ![w] = "loop"]
    /\ nStart' = nStart + 1
    /\ Log(w, [ev |-> "start"])
    /\ UNCHANGED <<pc, queueVars, stopping, nStop, destroyed, destroying, stopSaw>>

\* The thread of worker w is inside wait_for, on a queue that is empty and not
\* shut down.
BlockedOnEmpty(w) == Blocked(w) /\ buffer = <<>> /\ ~shutting_down

StopSaw(w) ==
    [blocked |-> BlockedOnEmpty(w),
     since |-> IF BlockedOnEmpty(w) THEN Len(hist) ELSE 0,
     at |-> wpc[w],
     log |-> Len(wlog[w])]

\* Mutant of StopRequest: stop() also notifies the condition variable of the
\* queue, to cut the worker's pop short.
StopRequestNotifies(c, w) ==
    /\ running' = [running EXCEPT ![w] = FALSE]
    /\ pc' = [u \in Threads |->
                IF u = c THEN "stop_join"
                ELSE IF pc[u] = "pop_wait" THEN "pop_woken"
                ELSE pc[u]]
    /\ stopping' = [stopping EXCEPT ![c] = w]
    /\ stopSaw' = [stopSaw EXCEPT ![c] = StopSaw(w)]

\* stop() is entered by thread c for worker w: running = false;
StopRequest(c, w) ==
    /\ running' = [running EXCEPT ![w] = FALSE]
    /\ pc' = [pc EXCEPT ![c] = "stop_join"]
    /\ stopping' = [stopping EXCEPT ![c] = w]
    /\ stopSaw' = [stopSaw EXCEPT ![c] = StopSaw(w)]

\* stop(): running = false;
WorkerStopFlag(c, w) ==
    /\ pc[c] = "idle"
    /\ ~destroyed[w]
    /\ ~Busy(w)
    /\ nStop < MaxStop
    /\ StopRequest(c, w)
    /\ nStop' = nStop + 1
    /\ UNCHANGED <<queueVars, wpc, joinable, wlog, nStart, destroyed, destroying>>

\* Where the caller of stop() goes when stop() returns: back to its caller, or
\* on with the destructor that called it.
AfterStop(c) == IF destroying[c] = NoThread THEN "idle" ELSE "dtor_join"

\* Mutant of WorkerStopJoin: stop() returns without joining the thread.
WorkerStopNoJoin(c) ==
    /\ pc[c] = "stop_join"
    /\ pc' = [pc EXCEPT ![c] = AfterStop(c)]
    /\ stopping' = [stopping EXCEPT ![c] = NoThread]
    /\ stopSaw' = [stopSaw EXCEPT ![c] = NoSaw]
    /\ Log(stopping[c], [ev |-> "stop"])
    /\ UNCHANGED <<queueVars, running, wpc, joinable, nStart, nStop, destroyed, destroying>>

\* Mutant of WorkerStopJoin: stop() makes the onStop callback before it returns.
WorkerStopJoinOnStop(c) ==
    /\ pc[c] = "stop_join"
    /\ IF joinable[stopping[c]]
         THEN /\ wpc[stopping[c]] = "exited"
              /\ joinable' = [joinable EXCEPT ![stopping[c]] = FALSE]
              /\ wpc' = [wpc EXCEPT ![stopping[c]] = "none"]
         ELSE UNCHANGED <<joinable, wpc>>
    /\ pc' = [pc EXCEPT ![c] = AfterStop(c)]
    /\ stopping' = [stopping EXCEPT ![c] = NoThread]
    /\ stopSaw' = [stopSaw EXCEPT ![c] = NoSaw]
    /\ wlog' = [wlog EXCEPT ![stopping[c]] =
                   Append(Append(@, [ev |-> "onStop", name |-> stopping[c], by |-> c,
                                     arg |-> NoVal, next |-> "none"]),
                          [ev |-> "stop"])]
    /\ UNCHANGED <<queueVars, running, nStart, nStop, destroyed, destroying>>

\* stop(): if (thread.joinable()) thread.join();  and return.
\* join blocks until run() has returned.
WorkerStopJoin(c) ==
    /\ pc[c] = "stop_join"
    /\ IF joinable[stopping[c]]
         THEN /\ wpc[stopping[c]] = "exited"
              /\ joinable' = [joinable EXCEPT ![stopping[c]] = FALSE]
              /\ wpc' = [wpc EXCEPT ![stopping[c]] = "none"]
         ELSE UNCHANGED <<joinable, wpc>>
    /\ pc' = [pc EXCEPT ![c] = AfterStop(c)]
    /\ stopping' = [stopping EXCEPT ![c] = NoThread]
    /\ stopSaw' = [stopSaw EXCEPT ![c] = NoSaw]
    /\ Log(stopping[c], [ev |-> "stop"])
    /\ UNCHANGED <<queueVars, running, nStart, nStop, destroyed, destroying>>

\* Mutant of WorkerDestroy: the destructor neither stops nor joins the thread
\* before it goes on.
WorkerDestroyNoStop(c, w) ==
    /\ pc[c] = "idle"
    /\ ~destroyed[w]
    /\ ~Busy(w)
    /\ pc' = [pc EXCEPT ![c] = "dtor_onstop"]
    /\ destroying' = [destroying EXCEPT ![c] = w]
    /\ UNCHANGED <<queueVars, running, wpc, joinable, stopping, wlog, nStart, nStop,
                   destroyed, stopSaw>>

\* ~Worker(): stop();  the destructor enters stop().
WorkerDestroy(c, w) ==
    /\ pc[c] = "idle"
    /\ ~destroyed[w]
    /\ ~Busy(w)
    /\ StopRequest(c, w)
    /\ destroying' = [destroying EXCEPT ![c] = w]
    /\ UNCHANGED <<queueVars, wpc, joinable, wlog, nStart, nStop, destroyed>>

\* ~Worker(): if (thread.joinable()) thread.join();
DtorJoin(c) ==
    /\ pc[c] = "dtor_join"
    /\ IF joinable[destroying[c]]
         THEN /\ wpc[destroying[c]] = "exited"
              /\ joinable' = [joinable EXCEPT ![destroying[c]] = FALSE]
              /\ wpc' = [wpc EXCEPT ![destroying[c]] = "none"]
         ELSE UNCHANGED <<joinable, wpc>>
    /\ pc' = [pc EXCEPT ![c] = "dtor_onstop"]
    /\ UNCHANGED <<queueVars, running, stopping, wlog, nStart, nStop,
                   destroyed, destroying, stopSaw>>

\* Mutant of DtorOnStop: the destructor makes no callback.
DtorSkipOnStop(c) ==
    /\ pc[c] = "dtor_onstop"
    /\ destroyed' = [destroyed EXCEPT ![destroying[c]] = TRUE]
    /\ destroying' = [destroying EXCEPT ![c] = NoThread]
    /\ pc' = [pc EXCEPT ![c] = "idle"]
    /\ UNCHANGED <<queueVars, running, wpc, joinable, stopping, wlog, nStart, nStop,
                   stopSaw>>

\* ~Worker(): action.onStop(name);  made by the thread that destroys the
\* worker, and the object is gone.
DtorOnStop(c) ==
    /\ pc[c] = "dtor_onstop"
    /\ Log(destroying[c], [ev |-> "onStop", name |-> destroying[c], by |-> c,
                           arg |-> NoVal, next |-> "destroyed"])
    /\ destroyed' = [destroyed EXCEPT ![destroying[c]] = TRUE]
    /\ destroying' = [destroying EXCEPT ![c] = NoThread]
    /\ pc' = [pc EXCEPT ![c] = "idle"]
    /\ UNCHANGED <<queueVars, running, wpc, joinable, stopping, nStart, nStop, stopSaw>>

\* Mutant of WorkerLoopTest: the loop does not look at running (while (true)).
WorkerLoopTestIgnoresStop(w) ==
    /\ wpc[w] = "loop"
    /\ wpc' = [wpc EXCEPT ![w] = "call"]
    /\ UNCHANGED <<pc, queueVars, running, joinable, stopping, wlog, nStart, nStop,
                   destroyed, destroying, stopSaw>>

\* run(): while (running)
WorkerLoopTest(w) ==
    /\ wpc[w] = "loop"
    /\ wpc' = [wpc EXCEPT ![w] = IF running[w] THEN "call" ELSE "exited"]
    /\ UNCHANGED <<pc, queueVars, running, joinable, stopping, wlog, nStart, nStop,
                   destroyed, destroying, stopSaw>>

\* run(): cola.pop(extracted_data, DEFAULT_WAIT_TIMEOUT) is called and takes the mutex.
WorkerPop(w) ==
    /\ wpc[w] = "call"
    /\ PopLock(w, DEFAULT_WAIT_TIMEOUT)
    /\ wpc' = [wpc EXCEPT ![w] = "in_pop"]
    /\ UNCHANGED <<running, joinable, stopping, wlog, nStart, nStop,
                   destroyed, destroying, stopSaw>>

\* The same, while the pops explored are fewer than MaxPop.
WorkerCallPop(w) == nPop < MaxPop /\ WorkerPop(w)

\* A pop called by run() has returned and its result has not been dispatched yet.
Returned(w) == wpc[w] = "in_pop" /\ pc[w] = "idle"

\* run(): pop has returned; switch (result): the callback, then break (back to
\* the loop test) or return.  The callback is logged with the name it was
\* given, the thread that ran it, its argument and where run() went next.
WorkerSwitch(w) ==
    /\ Returned(w)
    /\ Log(w, [ev |-> Dispatch(result[w]), name |-> w, by |-> w,
               arg |-> CallbackArg(Dispatch(result[w]), out[w]),
               next |-> AfterDispatch(result[w])])
    /\ wpc' = [wpc EXCEPT ![w] = AfterDispatch(result[w])]
    /\ UNCHANGED <<pc, queueVars, running, joinable, stopping, nStart, nStop,
                   destroyed, destroying, stopSaw>>

\* The producer thread pushes work for the workers: for (...) cola.push(i);
MainPush(t) == next_val < MaxWork /\ PushLock(t)

\* The producer thread shuts the queue down, once: cola.shutdown();
MainShutdown(t) == nShutdown = 0 /\ ShutdownLock(t)

\* The queue driven by workers: the producer thread pushes, shuts the queue
\* down, and starts and stops the workers; every pop is a worker's.
NextWorker ==
    \/ \E t \in Producers : MainPush(t)
    \/ \E t \in Producers : PushBody(t)
    \/ \E t \in Producers : MainShutdown(t)
    \/ \E t \in Producers : ShutdownSet(t)
    \/ \E t \in Producers : ShutdownNotify(t)
    \/ \E c \in Producers, w \in Consumers : WorkerStart(c, w)
    \/ \E c \in Producers, w \in Consumers : WorkerStopFlag(c, w)
    \/ \E c \in Producers : WorkerStopJoin(c)
    \/ \E w \in Consumers : WorkerLoopTest(w)
    \/ \E w \in Consumers : WorkerCallPop(w)
    \/ \E w \in Consumers : WorkerSwitch(w)
    \/ \E t \in Consumers : PopFirstCheck(t)
    \/ \E t \in Consumers : TimeoutWake(t)
    \/ \E t \in Consumers : SpuriousWake(t)
    \/ \E t \in Consumers : PopReacquire(t)
    \/ \E t \in Consumers : PopRecheck(t)
    \/ Tick

SpecWorker == Init /\ [][NextWorker]_vars

\* The producer thread pushes one item of work.
LifePush(t) == next_val = 0 /\ PushLock(t)

\* The workers in a world where no timeout ever fires: time stands still, and
\* the workers pop as often as their loops say.
NextShutdownFirst ==
    \/ \E t \in Producers : LifePush(t)
    \/ \E t \in Producers : PushBody(t)
    \/ \E t \in Producers : MainShutdown(t)
    \/ \E t \in Producers : ShutdownSet(t)
    \/ \E t \in Producers : ShutdownNotify(t)
    \/ \E c \in Producers, w \in Consumers : WorkerStart(c, w)
    \/ \E c \in Producers, w \in Consumers : WorkerStopFlag(c, w)
    \/ \E c \in Producers : WorkerStopJoin(c)
    \/ \E w \in Consumers : WorkerLoopTest(w)
    \/ \E w \in Consumers : WorkerPop(w)
    \/ \E w \in Consumers : WorkerSwitch(w)
    \/ \E t \in Consumers : PopFirstCheck(t)
    \/ \E t \in Consumers : SpuriousWake(t)
    \/ \E t \in Consumers : PopReacquire(t)
    \/ \E t \in Consumers : PopRecheck(t)

\* Fair scheduling of the workers: a step of run() that can be taken is
\* eventually taken (the callbacks return), and a join that can return does.
FairWorkers ==
    /\ \A w \in Consumers :
          /\ WF_vars(WorkerLoopTest(w))
          /\ WF_vars(WorkerPop(w))
          /\ WF_vars(WorkerSwitch(w))
    /\ \A c \in Producers : WF_vars(WorkerStopJoin(c))

SpecShutdownFirst ==
    Init /\ [][NextShutdownFirst]_vars /\ FairThreads /\ FairWorkers

\* The life of the workers from construction to destruction: the producer
\* thread pushes an item, shuts the queue down, and starts, stops and destroys
\* the workers.
NextLife ==
    \/ \E t \in Producers : LifePush(t)
    \/ \E t \in Producers : PushBody(t)
    \/ \E t \in Producers : MainShutdown(t)
    \/ \E t \in Producers : ShutdownSet(t)
    \/ \E t \in Producers : ShutdownNotify(t)
    \/ \E c \in Producers, w \in Consumers : WorkerStart(c, w)
    \/ \E c \in Producers, w \in Consumers : WorkerStopFlag(c, w)
    \/ \E c \in Producers : WorkerStopJoin(c)
    \/ \E c \in Producers, w \in Consumers : WorkerDestroy(c, w)
    \/ \E c \in Producers : DtorJoin(c)
    \/ \E c \in Producers : DtorOnStop(c)
    \/ \E w \in Consumers : WorkerLoopTest(w)
    \/ \E w \in Consumers : WorkerCallPop(w)
    \/ \E w \in Consumers : WorkerSwitch(w)
    \/ \E t \in Consumers : PopFirstCheck(t)
    \/ \E t \in Consumers : TimeoutWake(t)
    \/ \E t \in Consumers : SpuriousWake(t)
    \/ \E t \in Consumers : PopReacquire(t)
    \/ \E t \in Consumers : PopRecheck(t)
    \/ Tick

SpecLife == Init /\ [][NextLife]_vars

\* ------------------------------------------------------- history helpers
IsPush(e) == e.op = "push"
IsPop(e) == e.op = "pop"
IsShutdown(e) == e.op = "shutdown"
PushIdx == {i \in DOMAIN hist : IsPush(hist[i])}
PopIdx == {i \in DOMAIN hist : IsPop(hist[i])}
ShutdownIdx == {i \in DOMAIN hist : IsShutdown(hist[i])}
\* hist is exactly n pushes followed by m pop returns, and nothing else.
PushesThenPops(n, m) ==
    /\ Len(hist) = n + m
    /\ \A i \in 1..n : IsPush(hist[i])
    /\ \A i \in (n + 1)..(n + m) : IsPop(hist[i])
\* A pop blocks only after it found the queue empty and not shut down.
BlockedFoundNothing ==
    \A t \in Consumers :
        pc[t] \in {"pop_wait", "pop_woken", "pop_recheck"} => found[t] = Found(FALSE, <<>>)

\* ================================================================ claims

\* C1: in every reachable state the number of buffered items, and every value
\* get_size() has reported, is at most max_size.
C1_CapacityInvariant ==
    /\ Len(buffer) <= max_size
    /\ \A t \in Threads : ret[t].op = "size" => ret[t].val <= max_size

\* C1 witness: max_size + 1 pushes and no pop have completed (one eviction),
\* and get_size() has then reported exactly max_size.
C1_Witness ==
    /\ PushesThenPops(max_size + 1, 0)
    /\ \E t \in Threads : ret[t].op = "size" /\ ret[t].val = max_size

\* C2: push(item) on a full queue removes exactly the head and appends item;
\* on a non-full queue it appends and removes nothing.  Hence after pushing
\* 0..max_size into an empty queue the size is max_size and the next pop
\* returns OK with value 1.
C2_PushEvictsOldest ==
    /\ \A i \in PushIdx :
          hist[i].after =
              (IF Len(hist[i].before) = max_size THEN Tail(hist[i].before)
               ELSE hist[i].before) \o <<hist[i].val>>
    /\ PushesThenPops(max_size + 1, 0) => (Len(buffer) = max_size /\ Head(buffer) = 1)
    /\ PushesThenPops(max_size + 1, 1) =>
           (hist[max_size + 2].res = "OK" /\ hist[max_size + 2].val = 1)

\* C2 witness: max_size + 1 pushes, then a pop that returned OK with value 1.
C2_Witness ==
    /\ PushesThenPops(max_size + 1, 1)
    /\ hist[max_size + 2].res = "OK"
    /\ \E t \in Consumers : out[t] = 1

\* C3 (as claimed): for n values pushed onto the empty, non-shut-down queue with
\* no interleaved pop, the next m <= n pops return OK with the values in push
\* order, whatever n is.
C3_FifoAnyLength ==
    \A n \in 0..MaxPush : \A m \in 0..n :
        PushesThenPops(n, m) =>
            \A i \in 1..m : hist[n + i].res = "OK" /\ hist[n + i].val = hist[i].val

\* C3 (amended): for n <= max_size values pushed onto the empty, non-shut-down
\* queue with no interleaved pop, the next m <= n pops return OK with the values
\* in push order; after n pops the buffer is empty, and is_empty() returns true
\* exactly when it finds the buffer empty.
C3_FifoUpToCapacity ==
    /\ \A n \in 0..MaxPush : \A m \in 0..n :
          (n <= max_size /\ PushesThenPops(n, m)) =>
              /\ \A i \in 1..m : hist[n + i].res = "OK" /\ hist[n + i].val = hist[i].val
              /\ (m = n => buffer = <<>>)
    /\ \A t \in Threads : ret[t].op = "empty" => (ret[t].val <=> ret[t].n = 0)

\* C3 witness: the queue was filled to capacity 2, both values were popped in
\* order, and is_empty() then returned true.
C3_Witness ==
    /\ max_size = 2
    /\ PushesThenPops(2, 2)
    /\ hist[3].val = 0 /\ hist[4].val = 1
    /\ \E t \in Producers : pc[t] = "idle" /\ ret[t].op = "empty" /\ ret[t].val

\* C4 (as claimed): a pop called after shutdown on a non-empty queue returns OK
\* with the head item and removes it.
C4_ItemBeforeShutdown ==
    \A i \in PopIdx :
        (hist[i].found.sd /\ hist[i].found.n > 0) =>
            /\ hist[i].res = "OK"
            /\ hist[i].val = Head(hist[i].before)
            /\ hist[i].after = Tail(hist[i].before)

\* C4 (amended): a pop called after shutdown on a non-empty queue returns
\* SHUTDOWN without blocking and leaves the buffer unchanged.
C4_ShutdownBeforeItem ==
    /\ \A i \in PopIdx :
          (hist[i].found.sd /\ hist[i].found.n > 0) =>
              /\ ~hist[i].waited
              /\ hist[i].res = "SHUTDOWN"
              /\ hist[i].after = hist[i].before
              /\ hist[i].before # <<>>
    /\ BlockedFoundNothing

\* C4 witness: a pop that found shutting_down set and an item buffered has
\* returned SHUTDOWN, and the item is still buffered.
C4_Witness ==
    /\ hist # <<>>
    /\ IsPop(hist[Len(hist)])
    /\ hist[Len(hist)].found.sd
    /\ hist[Len(hist)].found.n > 0
    /\ hist[Len(hist)].res = "SHUTDOWN"
    /\ buffer # <<>>

\* C5: with no timeout ever firing, every thread that is blocked inside pop
\* once shutting_down is set eventually returns, and returns SHUTDOWN.
C5_ShutdownWakesBlocked ==
    \A t \in Consumers :
        (Blocked(t) /\ shutting_down) ~> (pc[t] = "idle" /\ result[t] = "SHUTDOWN")

\* C5 witness: two pops that had blocked returned SHUTDOWN, with their
\* deadlines still ahead.
C5_Witness ==
    /\ Len(hist) >= 2
    /\ \A i \in {Len(hist) - 1, Len(hist)} :
          /\ IsPop(hist[i])
          /\ hist[i].res = "SHUTDOWN"
          /\ hist[i].waited
          /\ ~hist[i].expired

\* C6: once shutting_down is true, a pop that finds the queue empty returns
\* SHUTDOWN without blocking, and no pop that returns is a TIMEOUT, even when
\* its deadline has passed.
C6_ShutdownPreemptsTimeout ==
    /\ \A i \in PopIdx :
          /\ (hist[i].found.sd /\ hist[i].found.n = 0) =>
                 (~hist[i].waited /\ hist[i].res = "SHUTDOWN")
          /\ hist[i].sd => hist[i].res # "TIMEOUT"
    /\ BlockedFoundNothing

\* C6 witness: a blocked pop whose deadline had passed returned SHUTDOWN, and
\* another pop found the queue shut down and empty.
C6_Witness ==
    /\ \E i \in PopIdx :
          hist[i].res = "SHUTDOWN" /\ hist[i].waited /\ hist[i].expired
    /\ \E i \in PopIdx : hist[i].found.sd /\ hist[i].found.n = 0

\* C7: a pop that finds the queue not shut down and non-empty returns OK without
\* waiting, outputs the head, and removes exactly the head.
C7_PopHeadWithoutWaiting ==
    /\ \A i \in PopIdx :
          (~hist[i].found.sd /\ hist[i].found.n > 0) =>
              /\ ~hist[i].waited
              /\ hist[i].res = "OK"
              /\ hist[i].val = Head(hist[i].before)
              /\ hist[i].after = Tail(hist[i].before)
    /\ BlockedFoundNothing

\* C7 witness: a pop that found two items and no shutdown returned OK with the
\* older one, and the younger one is still buffered.
C7_Witness ==
    /\ hist # <<>>
    /\ IsPop(hist[Len(hist)])
    /\ hist[Len(hist)].found = [sd |-> FALSE, n |-> 2]
    /\ hist[Len(hist)].res = "OK"
    /\ Len(buffer) = 1
    /\ hist[Len(hist)].val < Head(buffer)

\* C8 (as claimed): a pop during whose wait an item was pushed does not return
\* TIMEOUT.
C8_NoTimeoutAfterPush ==
    \A i \in PopIdx : hist[i].res = "TIMEOUT" => ~hist[i].pushed

\* C8 (amended): a pop returns TIMEOUT exactly when it has blocked and
\* re-acquires the mutex with its deadline passed, the buffer empty and
\* shutting_down false.  (An item pushed during the wait may be gone by then.)
C8_TimeoutExactly ==
    \A i \in PopIdx :
        hist[i].res = "TIMEOUT" <=>
            /\ hist[i].waited
            /\ hist[i].expired
            /\ hist[i].before = <<>>
            /\ ~hist[i].sd

\* C8 witness: a pop returned TIMEOUT although an item was pushed while it was
\* blocked (another consumer took the item).
C8_Witness ==
    \E i \in PopIdx : hist[i].res = "TIMEOUT" /\ hist[i].pushed

\* No pop in the history returned TIMEOUT before its full timeout had elapsed.
C9_NoEarlyTimeout ==
    \A i \in PopIdx : hist[i].res = "TIMEOUT" => ~hist[i].early

\* C9: under a fair clock, it is always the case that no pop has returned
\* TIMEOUT early, and a pop in progress leads to that pop returning TIMEOUT
\* unless the buffer becomes non-empty or the queue is shut down.
C9_TimeoutAfterFullWait ==
    /\ []C9_NoEarlyTimeout
    /\ \A t \in Consumers :
          InPop(t) ~> \/ (pc[t] = "idle" /\ result[t] = "TIMEOUT")
                      \/ buffer # <<>>
                      \/ shutting_down

\* C9 witness: a pop was woken by a push before its deadline, found the queue
\* empty again, and returned TIMEOUT once its deadline had passed.
C9_Witness ==
    /\ hist # <<>>
    /\ IsPop(hist[Len(hist)])
    /\ hist[Len(hist)].res = "TIMEOUT"
    /\ hist[Len(hist)].pushed
    /\ ~hist[Len(hist)].early

\* C10: shutting_down is false after construction and until the first
\* shutdown(), and true ever after: it is true exactly when some shutdown() has
\* completed its critical section, whatever was called since.
C10_ShutdownMonotonic ==
    /\ shutting_down <=> ShutdownIdx # {}
    /\ \A i \in ShutdownIdx : hist[i].after

\* C10 witness: after the first shutdown() a push, a pop and a second
\* shutdown() completed, and shutting_down is still true.
C10_Witness ==
    /\ shutting_down
    /\ \E i, j, k, l \in DOMAIN hist :
          /\ i < j /\ j < k /\ k < l
          /\ IsShutdown(hist[i]) /\ IsPush(hist[j]) /\ IsPop(hist[k]) /\ IsShutdown(hist[l])

\* Some shutdown() has executed its notify_all: more shutdown() calls have
\* set the flag than are still between unlock and notify_all.
NotifyAllDone ==
    Cardinality(ShutdownIdx) > Cardinality({t \in Producers : pc[t] = "sd_notify"})

\* C11: shutdown() is idempotent.  A shutdown() on a queue that is already
\* shut down leaves shutting_down true and the buffer as it was, and once one
\* notify_all has run no consumer sleeps on the condition variable, so a
\* repeated notify_all changes nobody's state; a pop that then finds the queue
\* shut down returns SHUTDOWN and leaves the buffer alone, after two calls as
\* after one.
C11_ShutdownIdempotent ==
    /\ \A i \in ShutdownIdx :
          hist[i].before => (hist[i].after /\ hist[i].bufAfter = hist[i].buf)
    /\ NotifyAllDone => (shutting_down /\ Waiters = {})
    /\ \A i \in PopIdx :
          hist[i].found.sd =>
              (hist[i].res = "SHUTDOWN" /\ hist[i].after = hist[i].before /\ ~hist[i].waited)

\* C11 witness: a second shutdown() has returned on a shut-down queue that
\* still holds an item, and a pop called after it returned SHUTDOWN.
C11_Witness ==
    /\ Len(hist) >= 3
    /\ IsShutdown(hist[Len(hist) - 1])
    /\ hist[Len(hist) - 1].before
    /\ hist[Len(hist) - 1].buf # <<>>
    /\ IsPop(hist[Len(hist)])
    /\ hist[Len(hist)].res = "SHUTDOWN"
    /\ \A t \in Producers : pc[t] = "idle"
    /\ buffer # <<>>

\* C12: no step of shutdown() (taking the mutex, setting the flag and
\* unlocking, notify_all) changes the buffer: the items and their order stay
\* as they were.
C12_ShutdownKeepsBuffer ==
    [][\A t \in Producers :
          ((pc[t] \in {"sd_cs", "sd_notify"} \/ pc'[t] = "sd_cs") /\ pc'[t] # pc[t])
              => buffer' = buffer]_vars

\* C12 witness: shutdown() has returned on a queue holding two items, which
\* are still there in the same order.
C12_Witness ==
    /\ hist # <<>>
    /\ IsShutdown(hist[Len(hist)])
    /\ Len(hist[Len(hist)].buf) = 2
    /\ buffer = hist[Len(hist)].buf
    /\ \A t \in Producers : pc[t] = "idle"

\* A step by which thread t goes to sleep on the condition variable.
Suspends(t) == pc'[t] = "pop_wait" /\ pc[t] # "pop_wait"

\* C13 (state part): a push that holds the mutex can always complete, whatever
\* the queue holds and whether or not it is shut down, and every completed push
\* left its item at the tail; only consumers inside pop are ever suspended.
C13_PushCompletes ==
    /\ \A t \in Threads : pc[t] = "push_cs" => ENABLED PushBody(t)
    /\ \A i \in PushIdx :
          hist[i].after # <<>> /\ hist[i].after[Len(hist[i].after)] = hist[i].val
    /\ \A t \in Threads : Blocked(t) => InPop(t)

\* C13: push never waits on the queue's state and never fails, and the only
\* suspension is that of a pop, which goes to sleep only when it sees the buffer
\* empty and shutting_down false.
C13_OnlyPopSuspends ==
    /\ []C13_PushCompletes
    /\ [][\A t \in Threads : Suspends(t) => (buffer = <<>> /\ ~shutting_down /\ mtx = t)]_vars

\* C13 witness: pushes have completed on an empty, a partly filled and a full
\* queue, one of them after shutdown, and a pop has slept and returned.
C13_Witness ==
    /\ \E i \in PushIdx : hist[i].before = <<>>
    /\ \E i \in PushIdx : Len(hist[i].before) > 0 /\ Len(hist[i].before) < max_size
    /\ \E i \in PushIdx : Len(hist[i].before) = max_size
    /\ \E i \in PushIdx : \E j \in ShutdownIdx : j < i
    /\ \E i \in PopIdx : hist[i].waited

\* The step by which thread t completes a push.
PushCompletes(t) == pc[t] = "push_cs" /\ pc'[t] = "idle"

\* Threads other than t whose position a step changes.
Moved(t) == {u \in Threads \ {t} : pc'[u] # pc[u]}

\* C14 (state part): a pop that has slept returns OK only if an item was pushed
\* while it slept, SHUTDOWN only on a shut-down queue and TIMEOUT only with its
\* deadline passed, and no more sleeping pops have returned OK than pushes have
\* completed.
C14_ReleasedByEvent ==
    /\ \A i \in PopIdx :
          hist[i].waited =>
              \/ hist[i].res = "OK" /\ hist[i].pushed
              \/ hist[i].res = "SHUTDOWN" /\ hist[i].sd
              \/ hist[i].res = "TIMEOUT" /\ hist[i].expired
    /\ Cardinality({i \in PopIdx : hist[i].waited /\ hist[i].res = "OK"})
           <= Cardinality(PushIdx)

\* C14: the step that completes a push notifies exactly one consumer asleep on
\* the condition variable if there is one and none otherwise; every other
\* sleeping consumer stays asleep, and stays inside pop until an item, a
\* shutdown or its deadline lets it return.
C14_PushWakesOne ==
    /\ []C14_ReleasedByEvent
    /\ [][\A t \in Producers :
            PushCompletes(t) =>
                /\ Cardinality(Moved(t)) = (IF Waiters = {} THEN 0 ELSE 1)
                /\ \A u \in Moved(t) : pc[u] = "pop_wait" /\ pc'[u] = "pop_woken"]_vars

\* C14 witness: two consumers slept on the empty queue, one push completed,
\* one consumer returned OK and the other is still asleep.
C14_Witness ==
    /\ Len(hist) = 2
    /\ IsPush(hist[1])
    /\ IsPop(hist[2]) /\ hist[2].waited /\ hist[2].res = "OK"
    /\ \E t \in Consumers : pc[t] = "pop_wait" /\ pushed_during[t]

\* The values pushed, and the values returned by OK pops, in lock order.
RECURSIVE ValuesOf(_, _)
ValuesOf(h, kind) ==
    IF h = <<>> THEN <<>>
    ELSE IF Head(h).op = kind /\ (kind = "pop" => Head(h).res = "OK")
         THEN <<Head(h).val>> \o ValuesOf(Tail(h), kind)
         ELSE ValuesOf(Tail(h), kind)

\* a is b with some elements left out.
RECURSIVE IsSubsequence(_, _)
IsSubsequence(a, b) ==
    IF a = <<>> THEN TRUE
    ELSE IF b = <<>> THEN FALSE
    ELSE IF Head(a) = Head(b) THEN IsSubsequence(Tail(a), Tail(b))
    ELSE IsSubsequence(a, Tail(b))

\* C15: the values returned by OK pops, in the order the pops held the mutex,
\* are a subsequence of the values pushed, in the order the pushes held it, and
\* every pop returned a value pushed before it.
C15_PopsSubsequenceOfPushes ==
    /\ IsSubsequence(ValuesOf(hist, "pop"), ValuesOf(hist, "push"))
    /\ \A i \in PopIdx :
          hist[i].res = "OK" => \E j \in PushIdx : j < i /\ hist[j].val = hist[i].val

\* C15 witness: three values were pushed, the oldest was evicted, and the two
\* consumers popped the other two in push order.
C15_Witness ==
    /\ max_size = 2
    /\ ValuesOf(hist, "push") = <<0, 1, 2>>
    /\ ValuesOf(hist, "pop") = <<1, 2>>
    /\ {out[t] : t \in Consumers} = {1, 2}

\* C16 (state part): the threads inside a critical section of the queue are
\* exactly the holder of the mutex, so there is at most one.
C16_MutualExclusion ==
    /\ \A t \in Threads : InCriticalSection(t) <=> mtx = t
    /\ Cardinality({t \in Threads : InCriticalSection(t)}) <= 1

\* C16: at most one thread holds the mutex, and every step that changes the
\* buffer or shutting_down, or that returns a value read from them (a pop
\* result, a size, an emptiness flag), is taken by the thread that holds it.
C16_AccessUnderMutex ==
    /\ []C16_MutualExclusion
    /\ [][(buffer' # buffer \/ shutting_down' # shutting_down \/ hist' # hist \/ ret' # ret)
            => (mtx # NoThread /\ InCriticalSection(mtx) /\ pc'[mtx] # pc[mtx]
                /\ \A u \in Threads \ {mtx} : ~InCriticalSection(u))]_vars

\* C16 witness: a producer is inside push holding the mutex while a notified
\* consumer waits for it, on a shut-down queue that holds an item.
C16_Witness ==
    /\ \E t \in Producers : mtx = t /\ pc[t] = "push_cs"
    /\ \E u \in Consumers : pc[u] = "pop_woken"
    /\ buffer # <<>>
    /\ shutting_down

\* A step of get_size() or is_empty() by thread t.
ReadStep(t) ==
    /\ pc'[t] # pc[t]
    /\ pc[t] \in {"size_cs", "empty_cs"} \/ pc'[t] \in {"size_cs", "empty_cs"}

\* C17 (state part): get_size() returned the number of items buffered while it
\* held the mutex, and is_empty() returned true exactly when that number was 0.
C17_SnapshotValue ==
    \A t \in Threads :
        /\ ret[t].op = "size" => ret[t].val = ret[t].n
        /\ ret[t].op = "empty" => (ret[t].val <=> ret[t].n = 0)

\* C17: get_size() and is_empty() return a snapshot taken under the mutex, and
\* none of their steps changes the buffer, shutting_down or the position of any
\* other thread (nobody is woken).
C17_PureSnapshots ==
    /\ []C17_SnapshotValue
    /\ [][\A t \in Threads :
            ReadStep(t) =>
                /\ buffer' = buffer
                /\ shutting_down' = shutting_down
                /\ \A u \in Threads \ {t} : pc'[u] = pc[u]]_vars

\* C17 witness: is_empty() returned false on a queue that holds an item while
\* a consumer sleeps on the condition variable; the item is still there and the
\* consumer still asleep.
C17_Witness ==
    /\ \E t \in Threads : pc[t] = "idle" /\ ret[t].op = "empty" /\ ~ret[t].val
    /\ buffer # <<>>
    /\ \E u \in Consumers : pc[u] = "pop_wait"

\* ---------------------------------------------------- worker log helpers
CallbackNames == {"trabajo", "colaVacia", "colaApagada"}
PopResults == {"OK", "TIMEOUT", "SHUTDOWN"}
\* The callbacks of kind cb made so far, as <<worker, position in its log>>.
CallbacksOf(cb) ==
    {e \in UNION {{<<w, k>> : k \in DOMAIN wlog[w]} : w \in Consumers} :
        wlog[e[1]][e[2]].ev = cb}
\* The callback the consume loop owes for a pop result.
CallbackFor(res) ==
    CASE res = "OK" -> "trabajo"
      [] res = "TIMEOUT" -> "colaVacia"
      [] res = "SHUTDOWN" -> "colaApagada"
\* Workers whose pop has returned res and has not been dispatched yet.
PendingWith(res) == {w \in Consumers : Returned(w) /\ result[w] = res}
LastOf(w) == wlog[w][Len(wlog[w])]

\* C18: every pop result of a worker is answered by exactly one callback, made
\* with that worker's name: OK by trabajo with the item the pop removed, TIMEOUT
\* by colaVacia with DEFAULT_WAIT_TIMEOUT, and after both run() goes back to
\* the loop test.  Every item removed from the queue is handed to trabajo
\* exactly once, or is about to be.
C18_OneCallbackPerPop ==
    /\ \A res \in PopResults :
          Cardinality({i \in PopIdx : hist[i].res = res})
              = Cardinality(CallbacksOf(CallbackFor(res))) + Cardinality(PendingWith(res))
    /\ \A i \in PopIdx :
          hist[i].res = "OK" =>
              Cardinality({e \in CallbacksOf("trabajo") : wlog[e[1]][e[2]].arg = hist[i].val})
                  + Cardinality({w \in PendingWith("OK") : out[w] = hist[i].val}) = 1
    /\ \A w \in Consumers : \A k \in DOMAIN wlog[w] :
          wlog[w][k].ev \in CallbackNames =>
              /\ wlog[w][k].name = w
              /\ wlog[w][k].ev = "colaVacia" => wlog[w][k].arg = DEFAULT_WAIT_TIMEOUT
              /\ wlog[w][k].ev \in {"trabajo", "colaVacia"} => wlog[w][k].next = "loop"

\* C18 witness: a worker whose stop() has been requested and has not returned
\* was handed the item its pop removed, after an earlier pop of it had timed
\* out, and is back at the loop test.
C18_Witness ==
    \E w \in Consumers :
        /\ Len(wlog[w]) = 3
        /\ wlog[w][2].ev = "colaVacia"
        /\ wlog[w][3].ev = "trabajo" /\ wlog[w][3].arg = 0
        /\ ~running[w]
        /\ \E c \in Producers : stopping[c] = w
        /\ wpc[w] = "loop"

\* C19: a colaApagada callback ends the consume loop: run() returns after it,
\* so no callback follows it in that worker's log (only a stop() or a new
\* start()), the thread is not inside pop again, and exactly one colaApagada
\* answers each SHUTDOWN result, whatever the running flag says.
C19_ShutdownEndsLoop ==
    /\ \A w \in Consumers : \A k \in DOMAIN wlog[w] :
          wlog[w][k].ev = "colaApagada" =>
              /\ wlog[w][k].next = "exited"
              /\ k < Len(wlog[w]) => wlog[w][k + 1].ev \in {"stop", "start"}
    /\ \A w \in Consumers :
          (wlog[w] # <<>> /\ LastOf(w).ev = "colaApagada") =>
              (wpc[w] = "exited" /\ pc[w] = "idle")
    /\ Cardinality({i \in PopIdx : hist[i].res = "SHUTDOWN"})
           = Cardinality(CallbacksOf("colaApagada")) + Cardinality(PendingWith("SHUTDOWN"))

\* C19 witness: a worker has made its colaApagada callback and its thread has
\* left run() although its running flag is still true, items are buffered and
\* pops remain to be made.
C19_Witness ==
    \E w \in Consumers :
        /\ wlog[w] # <<>>
        /\ LastOf(w).ev = "colaApagada"
        /\ wpc[w] = "exited"
        /\ running[w]
        /\ buffer # <<>>
        /\ nPop < MaxPop

\* C20: when stop() has returned the worker has no thread: run() has returned
\* and been joined, the worker is not inside pop, and in its log nothing but a
\* new start() or another stop() follows the return of a stop().
C20_StopJoins ==
    /\ \A w \in Consumers : \A k \in DOMAIN wlog[w] :
          (wlog[w][k].ev = "stop" /\ k < Len(wlog[w])) =>
              wlog[w][k + 1].ev \in {"stop", "start"}
    /\ \A w \in Consumers :
          (wlog[w] # <<>> /\ LastOf(w).ev = "stop") =>
              (wpc[w] = "none" /\ pc[w] = "idle" /\ ~joinable[w])

\* C20 witness: stop() has returned on a started worker whose pop was answered
\* by colaVacia before its thread ended, with the queue not shut down.
C20_Witness ==
    \E w \in Consumers :
        /\ Len(wlog[w]) = 3
        /\ wlog[w][1].ev = "start"
        /\ wlog[w][2].ev = "colaVacia"
        /\ wlog[w][3].ev = "stop"
        /\ ~shutting_down
        /\ \A c \in Producers : pc[c] = "idle"

\* ------------------------------------------------------ stop() in progress
\* A step of stop() by thread c: it enters stop() or returns from it.
StopStep(c) == pc'[c] # pc[c] /\ (pc[c] = "stop_join" \/ pc'[c] = "stop_join")
\* The operations completed on the queue since the history had length n.
Since(n) == {i \in DOMAIN hist : i > n}
\* No push and no shutdown has completed since the history had length n.
OnlyPopsSince(n) == \A i \in Since(n) : IsPop(hist[i])

\* C21 (state part): a stop() called while the worker was blocked in pop on an
\* empty queue that was not shut down, with no push or shutdown since, finds the
\* queue still empty and not shut down; the pops that returned meanwhile timed
\* out after their full timeout; and stop() can return only once the worker's
\* own pop is among them and was answered by colaVacia.
C21_StopWaitsForPop ==
    \A c \in Producers :
        (pc[c] = "stop_join" /\ stopSaw[c].blocked /\ OnlyPopsSince(stopSaw[c].since)) =>
            /\ buffer = <<>> /\ ~shutting_down
            /\ \A i \in Since(stopSaw[c].since) :
                  hist[i].res = "TIMEOUT" /\ ~hist[i].early /\ hist[i].expired
            /\ ENABLED WorkerStopJoin(c) =>
                  /\ Since(stopSaw[c].since) # {}
                  /\ LastOf(stopping[c]).ev = "colaVacia"

\* C21: stop() does not cancel a pop in flight.  Its steps change the running
\* flag and the worker's thread handle, and leave the buffer, shutting_down, the
\* mutex and every consumer's position (blocked or not) as they were; and a
\* stop() that found the worker blocked on an empty queue returns, absent a push
\* or shutdown, only after that pop has timed out.
C21_StopDoesNotCancelPop ==
    /\ []C21_StopWaitsForPop
    /\ [][\A c \in Producers :
            StopStep(c) =>
                /\ buffer' = buffer
                /\ shutting_down' = shutting_down
                /\ mtx' = mtx
                /\ hist' = hist
                /\ remaining' = remaining
                /\ \A t \in Consumers : pc'[t] = pc[t]]_vars

\* C21 witness: stop() was called while the worker slept in pop on the empty
\* queue; nothing was pushed and the queue was not shut down; the pop has timed
\* out, the thread has left run(), and stop() is about to return.
C21_Witness ==
    \E c \in Producers :
        /\ pc[c] = "stop_join"
        /\ stopSaw[c].blocked
        /\ OnlyPopsSince(stopSaw[c].since)
        /\ \E i \in Since(stopSaw[c].since) : hist[i].res = "TIMEOUT"
        /\ wpc[stopping[c]] = "exited"
        /\ LastOf(stopping[c]).ev = "colaVacia"

\* C22: with no timeout ever firing, once the queue is shut down every
\* worker's consume loop ends, and every stop() in progress on the shut-down
\* queue returns.
C22_ShutdownThenStopReturns ==
    /\ \A w \in Consumers :
          (shutting_down /\ wpc[w] \in {"loop", "call", "in_pop"})
              ~> (wpc[w] \in {"exited", "none"})
    /\ \A c \in Producers :
          (shutting_down /\ pc[c] = "stop_join") ~> (pc[c] = "idle")

\* C22 witness: both workers slept in pop, the queue was shut down, and stop()
\* has returned on both after each was answered by colaApagada, with every
\* deadline still ahead.
C22_Witness ==
    /\ \A w \in Consumers :
          /\ Len(wlog[w]) = 3
          /\ wlog[w][2].ev = "colaApagada"
          /\ wlog[w][3].ev = "stop"
    /\ \A i \in PopIdx : hist[i].res = "SHUTDOWN" /\ hist[i].waited /\ ~hist[i].expired
    /\ Cardinality(PopIdx) = NConsumers

\* ------------------------------------------------------------- loop runs
\* The four callbacks of IWorkerAction.
ActionNames == CallbackNames \cup {"onStop"}
\* The stop() that returned at position k of w's log ended a run of the consume
\* loop that start() began at position j: no start and no stop lies between.
RunOf(w, j, k) ==
    /\ j < k
    /\ wlog[w][j].ev = "start"
    /\ wlog[w][k].ev = "stop"
    /\ \A i \in (j + 1)..(k - 1) : wlog[w][i].ev \notin {"start", "stop"}

\* C23 (as claimed): when stop() has returned on a worker whose loop ran, onStop
\* was made exactly once in that run, as its last callback: it is the entry
\* right before the return of stop().
C23_OnStopAtLoopExit ==
    \A w \in Consumers : \A j, k \in DOMAIN wlog[w] :
        RunOf(w, j, k) =>
            /\ wlog[w][k - 1].ev = "onStop"
            /\ Cardinality({i \in (j + 1)..(k - 1) : wlog[w][i].ev = "onStop"}) = 1

\* C24 (as claimed): every callback made for a worker, onStop included, is
\* executed by that worker's own thread.
C24_CallbacksOnWorkerThread ==
    \A w \in Consumers : \A k \in DOMAIN wlog[w] :
        wlog[w][k].ev \in ActionNames => wlog[w][k].by = w

\* The worker has no thread executing run(): it was never started, it was
\* stopped, or run() has returned.
ThreadNotRunning(w) == ~joinable[w] \/ wpc[w] = "exited"

\* The worker that the step of stop() by thread c is about.
StopTarget(c) == IF pc[c] = "stop_join" THEN stopping[c] ELSE stopping'[c]

\* C25 (state part): a stop() on a worker whose thread is not running can
\* return at once, whatever the queue holds and whoever sleeps on it; and when a
\* stop() has returned the worker is stopped, after two calls as after one.
C25_IdleStopReturns ==
    /\ \A c \in Producers :
          (pc[c] = "stop_join" /\ ThreadNotRunning(stopping[c])) => ENABLED WorkerStopJoin(c)
    /\ \A w \in Consumers :
          (wlog[w] # <<>> /\ LastOf(w).ev = "stop") =>
              (~running[w] /\ ~joinable[w] /\ wpc[w] = "none")

\* C25: stop() on a worker whose thread is not running (never started, already
\* stopped, or loop ended by SHUTDOWN) returns without waiting, makes no
\* callback (the worker's log gains only the return of stop()), and leaves the
\* queue and every consumer's position unchanged; a stop() that follows a stop()
\* changes nothing of the worker.
C25_StopIsNoOp ==
    /\ []C25_IdleStopReturns
    /\ [][\A c \in Producers :
            (StopStep(c) /\ ThreadNotRunning(StopTarget(c))) =>
                /\ buffer' = buffer /\ shutting_down' = shutting_down
                /\ mtx' = mtx /\ hist' = hist
                /\ \A t \in Consumers : pc'[t] = pc[t]
                /\ \A w \in Consumers :
                      \/ wlog'[w] = wlog[w]
                      \/ w = StopTarget(c) /\ wlog'[w] = Append(wlog[w], [ev |-> "stop"])
                /\ (wlog[StopTarget(c)] # <<>> /\ LastOf(StopTarget(c)).ev = "stop") =>
                      /\ running'[StopTarget(c)] = running[StopTarget(c)]
                      /\ joinable'[StopTarget(c)] = joinable[StopTarget(c)]
                      /\ wpc'[StopTarget(c)] = wpc[StopTarget(c)]]_vars

\* C25 witness: stop() has returned twice in a row on a worker whose loop had
\* been ended by SHUTDOWN; the queue is shut down and still holds an item.
C25_Witness ==
    \E w \in Consumers :
        /\ Len(wlog[w]) = 4
        /\ wlog[w][2].ev = "colaApagada"
        /\ wlog[w][3].ev = "stop"
        /\ wlog[w][4].ev = "stop"
        /\ buffer # <<>>
        /\ \A c \in Producers : pc[c] = "idle"

\* C26: a worker is never destroyed while its thread runs.  When the destructor
\* has passed its stop() and join, and ever after the object is gone, the worker
\* has no thread: run() has returned and been joined, the thread is not inside
\* pop, and the running flag is false.
C26_DestroyedAfterJoin ==
    /\ \A c \in Producers :
          pc[c] = "dtor_onstop" =>
              (wpc[destroying[c]] = "none" /\ ~joinable[destroying[c]]
               /\ pc[destroying[c]] = "idle")
    /\ \A w \in Consumers :
          destroyed[w] =>
              /\ wpc[w] = "none" /\ ~joinable[w] /\ pc[w] = "idle" /\ ~running[w]
              /\ LastOf(w).ev = "onStop"
              /\ wlog[w][Len(wlog[w]) - 1].ev = "stop"

\* C26 witness: both workers are gone and stop() was never called by hand: one
\* was destroyed while its thread was running and had handled an item, the other
\* was never started.
C26_Witness ==
    /\ nStop = 0
    /\ \A w \in Consumers : destroyed[w]
    /\ \E w \in Consumers :
          wlog[w][1].ev = "start" /\ \E k \in DOMAIN wlog[w] : wlog[w][k].ev = "trabajo"
    /\ \E w \in Consumers : Len(wlog[w]) = 2

\* The threads of worker w that were started and not joined, counted from its
\* log: the starts, less the stops that ended a run.
LiveThreads(w) ==
    Cardinality({j \in DOMAIN wlog[w] : wlog[w][j].ev = "start"})
        - Cardinality({j \in DOMAIN wlog[w] : \E k \in DOMAIN wlog[w] : RunOf(w, j, k)})
\* A stop() of worker w is in progress.
StopPending(w) == \E c \in Producers : pc[c] = "stop_join" /\ stopping[c] = w

\* C27: start() has set running before the new thread makes its first loop
\* test: a thread that has not made it yet finds the flag true unless a stop() has
\* been called since, and a thread leaves run() without a pop only if one has.
\* With start() called only on a stopped worker, every start but the first
\* follows the return of a stop(), and the worker has one thread while it is
\* joinable and none otherwise.
C27_StartEntersLoop ==
    \A w \in Consumers :
        /\ (wlog[w] # <<>> /\ LastOf(w).ev = "start" /\ ~StopPending(w)) =>
               (running[w] /\ wpc[w] \in {"loop", "call", "in_pop"})
        /\ \A k \in DOMAIN wlog[w] :
               (wlog[w][k].ev = "start" /\ k > 1) => wlog[w][k - 1].ev = "stop"
        /\ LiveThreads(w) = (IF joinable[w] THEN 1 ELSE 0)
        /\ joinable[w] <=> wpc[w] # "none"

\* C27 witness: a worker that had been stopped was started again, and its new
\* thread has entered the loop and handled an item.
C27_Witness ==
    \E w \in Consumers : \E k \in DOMAIN wlog[w] :
        /\ k > 1 /\ k < Len(wlog[w])
        /\ wlog[w][k].ev = "start"
        /\ wlog[w][k + 1].ev = "trabajo"
        /\ joinable[w]

\* C28: a pop that returned TIMEOUT found, holding the mutex as it returned,
\* the buffer empty and shutting_down false, and removed nothing; a pop that
\* returned OK found the buffer non-empty and removed exactly its front.  This
\* holds for pops that slept and were woken, whatever woke them and whoever took
\* the item meanwhile; and whoever evaluates the predicate holds the mutex.
C28_NoFrontOfEmptyBuffer ==
    /\ \A i \in PopIdx :
          /\ hist[i].res = "TIMEOUT" =>
                (hist[i].before = <<>> /\ hist[i].after = <<>> /\ ~hist[i].sd)
          /\ hist[i].res = "OK" =>
                /\ hist[i].before # <<>>
                /\ hist[i].val = hist[i].before[1]
                /\ Len(hist[i].after) = Len(hist[i].before) - 1
                /\ ~hist[i].sd
    /\ \A t \in Consumers : pc[t] \in {"pop_cs", "pop_recheck"} => mtx = t

\* C28 witness: a consumer that slept was woken by a push whose item the other
\* consumer had taken, and it returned TIMEOUT on the empty queue after the
\* other's OK.
C28_Witness ==
    /\ Len(hist) = 3
    /\ IsPush(hist[1])
    /\ IsPop(hist[2]) /\ hist[2].res = "OK" /\ ~hist[2].waited
    /\ IsPop(hist[3]) /\ hist[3].res = "TIMEOUT" /\ hist[3].pushed
    /\ buffer = <<>>

\* ---------------------------------------------------- where the items are
Elems(q) == {q[k] : k \in DOMAIN q}
\* The items whose push has completed, those a push removed from the full
\* buffer, and those an OK pop returned.
Pushed == {hist[i].val : i \in PushIdx}
Evicted == UNION {Elems(hist[i].before) \ Elems(hist[i].after) : i \in PushIdx}
OkPops == {i \in PopIdx : hist[i].res = "OK"}
Delivered == {hist[i].val : i \in OkPops}

\* C29: every item pushed is in exactly one place: in the buffer, evicted by a
\* later push on the full queue, or returned by an OK pop; no item is in the
\* buffer twice or returned by two pops, and nothing is returned that was not
\* pushed.
C29_ItemConservation ==
    /\ Pushed = Elems(buffer) \cup Evicted \cup Delivered
    /\ Elems(buffer) \cap Evicted = {}
    /\ Elems(buffer) \cap Delivered = {}
    /\ Evicted \cap Delivered = {}
    /\ Cardinality(Elems(buffer)) = Len(buffer)
    /\ Cardinality(Delivered) = Cardinality(OkPops)
    /\ \A i \in PushIdx : Cardinality(Elems(hist[i].before) \ Elems(hist[i].after)) <= 1

\* C29 witness: of three items pushed, one was evicted, one was returned to a
\* consumer that had slept, and one is in the buffer, while the other consumer
\* is still inside pop.
C29_Witness ==
    /\ Pushed = {0, 1, 2}
    /\ Cardinality(Evicted) = 1
    /\ Cardinality(Delivered) = 1
    /\ Len(buffer) = 1
    /\ \E i \in OkPops : hist[i].waited
    /\ \E t \in Consumers : InPop(t)

\* Consumers woken (notified, timed out or woken for no reason) that have not
\* re-acquired the mutex yet, and those that have and are about to evaluate the
\* predicate again.
WokenNoMutex == {t \in Threads : pc[t] = "pop_woken"}
WokenWithMutex == {t \in Threads : pc[t] = "pop_recheck"}

\* C30 (as claimed): while shutting_down is false and some consumer sleeps
\* un-notified, the buffered items are at most the consumers woken that have
\* not re-acquired the mutex yet.
C30_ItemsCoveredBeforeReacquire ==
    (~shutting_down /\ Waiters # {}) => Len(buffer) <= Cardinality(WokenNoMutex)

\* C30 (amended): while shutting_down is false and some consumer sleeps
\* un-notified, the buffered items are at most the consumers woken that have
\* not evaluated the predicate again yet, with or without the mutex.
C30_ItemsCoveredByWoken ==
    (~shutting_down /\ Waiters # {}) =>
        Len(buffer) <= Cardinality(WokenNoMutex \cup WokenWithMutex)

\* C30 witness: one consumer sleeps un-notified while the other, notified by the
\* push of the item that is buffered, has re-acquired the mutex and not taken
\* the item yet.
C30_Witness ==
    /\ ~shutting_down
    /\ Waiters # {}
    /\ Len(buffer) = 1
    /\ WokenNoMutex = {}
    /\ Cardinality(WokenWithMutex) = 1

\* No shutdown() has executed its notify_all yet, although the flag is set:
\* every caller that set it is still between unlock and notify_all.
NotifyPending ==
    /\ shutting_down
    /\ ~NotifyAllDone

\* C31: shutdown() unlocks before notify_all and still loses no wakeup.  A
\* consumer sleeps on the condition variable of a shut-down queue only while
\* every notify_all is still to come, and it went to sleep on a queue it found
\* running; once one notify_all has run no consumer sleeps and none goes to
\* sleep later: a pop that finds the flag set, in the window between unlock and
\* notify_all or after it, returns SHUTDOWN and never waited.
C31_NoLostWakeup ==
    /\ \A t \in Consumers :
          (pc[t] = "pop_wait" /\ shutting_down) => (NotifyPending /\ ~found[t].sd)
    /\ \A t \in Consumers :
          (pc[t] \in {"pop_woken", "pop_recheck"}) => ~found[t].sd
    /\ \A i \in PopIdx :
          hist[i].found.sd => (~hist[i].waited /\ hist[i].res = "SHUTDOWN")
    /\ \A i \in PopIdx :
          (hist[i].sd /\ hist[i].waited) => hist[i].res = "SHUTDOWN"

\* C31 witness: one consumer took the mutex in the window between unlock and
\* notify_all and returned SHUTDOWN without waiting while another was still
\* asleep; the notify_all then ran, the sleeper returned SHUTDOWN too, and
\* nobody sleeps.
C31_Witness ==
    /\ NotifyAllDone
    /\ Waiters = {}
    /\ \A t \in Threads : pc[t] = "idle"
    /\ Len(hist) >= 3
    /\ IsShutdown(hist[Len(hist) - 2])
    /\ ~hist[Len(hist) - 2].before
    /\ IsPop(hist[Len(hist) - 1])
    /\ hist[Len(hist) - 1].found.sd
    /\ ~hist[Len(hist) - 1].waited
    /\ IsPop(hist[Len(hist)])
    /\ hist[Len(hist)].waited
    /\ ~hist[Len(hist)].found.sd
    /\ ~hist[Len(hist)].expired
    /\ hist[Len(hist)].res = "SHUTDOWN"

\* The callbacks the thread of the worker that c is stopping has made since
\* stop() set running to false.
CallbacksSinceStop(c) == Len(wlog[stopping[c]]) - stopSaw[c].log

\* Whether the thread is inside a pop it has called and not yet dispatched, as
\* a number.
InPopNow(w) == IF wpc[w] = "in_pop" THEN 1 ELSE 0
InPopAtStop(c) == IF stopSaw[c].at = "in_pop" THEN 1 ELSE 0

\* The pops that thread has called since stop() set running to false: those
\* dispatched since and the one in progress, less the one that was already in
\* progress then.
PopsSinceStop(c) == CallbacksSinceStop(c) + InPopNow(stopping[c]) - InPopAtStop(c)

\* C32: while a stop() is in progress, running is false and the worker's
\* thread has called at most one pop and made at most one callback since the
\* flag was cleared; it has called a pop only if it had passed its loop test
\* and not yet called pop when the flag was cleared, and made a callback only
\* if it had passed the loop test; a flag cleared before a loop test (the first
\* one included), or with no thread, is followed by no pop and no callback.
C32_AtMostOnePopAfterStop ==
    \A c \in Producers :
        pc[c] = "stop_join" =>
            /\ ~running[stopping[c]]
            /\ CallbacksSinceStop(c) \in {0, 1}
            /\ PopsSinceStop(c) \in {0, 1}
            /\ \A i \in (stopSaw[c].log + 1)..Len(wlog[stopping[c]]) :
                  /\ wlog[stopping[c]][i].ev \in CallbackNames
                  /\ wlog[stopping[c]][i].by = stopping[c]
            /\ PopsSinceStop(c) = 1 => stopSaw[c].at = "call"
            /\ CallbacksSinceStop(c) = 1 => stopSaw[c].at \in {"call", "in_pop"}
            /\ stopSaw[c].at \in {"loop", "exited", "none"} =>
                  wpc[stopping[c]] \in {"loop", "exited", "none"}

\* C32 witness: stop() cleared the flag when the thread had passed its loop
\* test and not yet called pop; the thread has since called that one pop,
\* dispatched its result and left the loop at the next test.
C32_Witness ==
    \E c \in Producers :
        /\ pc[c] = "stop_join"
        /\ stopSaw[c].at = "call"
        /\ PopsSinceStop(c) = 1
        /\ CallbacksSinceStop(c) = 1
        /\ wpc[stopping[c]] = "exited"
        /\ wlog[stopping[c]][Len(wlog[stopping[c]])].next = "loop"

\* C32 witness, second case: stop() cleared the flag before the thread's
\* first loop test, and the thread has left run() without a pop or a callback.
C32_WitnessFirstCheck ==
    \E c \in Producers :
        /\ pc[c] = "stop_join"
        /\ stopSaw[c].at = "loop"
        /\ wlog[stopping[c]][stopSaw[c].log].ev = "start"
        /\ wpc[stopping[c]] = "exited"
        /\ CallbacksSinceStop(c) = 0

\* The pushes that completed after some shutdown() had set the flag.
PushAfterShutdownIdx == {i \in PushIdx : \E j \in ShutdownIdx : j < i}

\* C33: a push after shutdown() is carried out like any other.  Its item is
\* appended at the tail, after the oldest item was dropped if the queue was
\* full and with the other items as they were; the queue holds at most
\* max_size items afterwards; and shutting_down is still true.
C33_PushAfterShutdownAccepted ==
    /\ \A i \in PushAfterShutdownIdx :
          /\ hist[i].after =
                Append(IF Len(hist[i].before) = max_size
                         THEN Tail(hist[i].before)
                         ELSE hist[i].before,
                       hist[i].val)
          /\ Len(hist[i].after) <= max_size
          /\ Len(hist[i].after) >= 1
    /\ PushAfterShutdownIdx # {} => shutting_down
    /\ (hist # <<>> /\ Len(hist) \in PushAfterShutdownIdx) =>
          buffer = hist[Len(hist)].after

\* C33 witness: on a queue that was shut down while full, a push has just
\* completed: it dropped the oldest item, its own item is at the tail, and the
\* queue is still full and still shut down.
C33_Witness ==
    /\ shutting_down
    /\ \A t \in Threads : pc[t] = "idle"
    /\ Len(hist) \in PushAfterShutdownIdx
    /\ Len(hist[Len(hist)].before) = max_size
    /\ max_size = 2
    /\ buffer = <<hist[Len(hist)].before[2], hist[Len(hist)].val>>

\* The buffer before and after a completed operation of the history.
BufBefore(e) == IF IsShutdown(e) THEN e.buf ELSE e.before
BufAfter(e) == IF IsShutdown(e) THEN e.bufAfter ELSE e.after

\* The operations that completed after some shutdown() had set the flag.
AfterShutdownIdx == {i \in DOMAIN hist : \E j \in ShutdownIdx : j < i}

\* The items that were in the buffer when a shutdown() set the flag, and those
\* pushed afterwards.
LeftAtShutdown ==
    UNION {Elems(hist[j].buf) : j \in ShutdownIdx}
        \cup {hist[i].val : i \in PushAfterShutdownIdx}

\* C34: once shutting_down is true no pop returns OK and no pop removes an
\* item.  The buffer only ever changes by the operations of the history, and
\* of those after the first shutdown() only pushes changed it; an item that
\* was buffered at a shutdown() or pushed after one was never returned by a
\* pop and never handed to a worker's trabajo.
C34_NoDeliveryAfterShutdown ==
    /\ \A i \in PopIdx \cap AfterShutdownIdx :
          /\ hist[i].res # "OK"
          /\ hist[i].after = hist[i].before
    /\ \A i \in DOMAIN hist :
          BufBefore(hist[i]) = IF i = 1 THEN <<>> ELSE BufAfter(hist[i - 1])
    /\ buffer = IF hist = <<>> THEN <<>> ELSE BufAfter(hist[Len(hist)])
    /\ \A i \in AfterShutdownIdx \cup ShutdownIdx :
          BufAfter(hist[i]) # BufBefore(hist[i]) => IsPush(hist[i])
    /\ Delivered \cap LeftAtShutdown = {}
    /\ \A e \in CallbacksOf("trabajo") : wlog[e[1]][e[2]].arg \notin LeftAtShutdown
    /\ \A w \in PendingWith("OK") : out[w] \notin LeftAtShutdown

\* C34 witness: the queue was shut down holding one item and a second was
\* pushed afterwards; a worker's pop then returned SHUTDOWN and the worker was
\* told colaApagada; both items are still in the buffer and no trabajo was
\* ever called.
C34_Witness ==
    /\ shutting_down
    /\ Len(buffer) = 2
    /\ Elems(buffer) \subseteq LeftAtShutdown
    /\ PushAfterShutdownIdx # {}
    /\ IsPop(hist[Len(hist)])
    /\ hist[Len(hist)].before = buffer
    /\ CallbacksOf("trabajo") = {}
    /\ \E w \in Consumers : wlog[w] # <<>> /\ LastOf(w).ev = "colaApagada"

\* The queue with a producer that pushes and shuts it down once, consumers
\* that pop, a clock that advances and deadlines that fire.
NextClockShutdown ==
    \/ \E t \in Producers : MainPush(t)
    \/ \E t \in Producers : PushBody(t)
    \/ \E t \in Producers : MainShutdown(t)
    \/ \E t \in Producers : ShutdownSet(t)
    \/ \E t \in Producers : ShutdownNotify(t)
    \/ \E t \in Consumers, d \in Timeouts : ConsumerPop(t, d)
    \/ \E t \in Consumers : PopFirstCheck(t)
    \/ \E t \in Consumers : TimeoutWake(t)
    \/ \E t \in Consumers : SpuriousWake(t)
    \/ \E t \in Consumers : PopReacquire(t)
    \/ \E t \in Consumers : PopRecheck(t)
    \/ Tick

SpecClockShutdown ==
    /\ Init /\ [][NextClockShutdown]_vars
    /\ FairThreads
    /\ WF_vars(Tick)
    /\ \A t \in Consumers : WF_vars(TimeoutWake(t))

\* C35: under fair scheduling, with a clock that advances and deadlines that
\* fire, every pop that has been called returns, with one of OK, TIMEOUT and
\* SHUTDOWN, whatever producers, other consumers and shutdown() do meanwhile.
C35_PopReturns ==
    \A t \in Consumers :
        InPop(t) ~> (pc[t] = "idle" /\ result[t] \in PopResults)

\* C35 witness: two pops were inside wait_for at once while a shutdown() was
\* between unlock and notify_all, and both have returned, one after its
\* deadline and one woken by the shutdown().
C35_Witness ==
    /\ \A t \in Threads : pc[t] = "idle"
    /\ shutting_down
    /\ Cardinality({i \in PopIdx : hist[i].waited}) = 2
    /\ \E i \in PopIdx : hist[i].waited /\ hist[i].expired
    /\ \E i \in PopIdx : hist[i].waited /\ ~hist[i].expired
    /\ \A t \in Consumers : result[t] \in PopResults

\* The positions of the onStop callbacks in the log of worker w.
OnStops(w) == {k \in DOMAIN wlog[w] : wlog[w][k].ev = "onStop"}

PopReturns(t) == InPop(t) /\ pc'[t] = "idle"

\* C37: a pop that returns TIMEOUT or SHUTDOWN leaves the buffer and its
\* caller's out as they were, and out changes only in the step by which the
\* caller's own pop returns OK, to the item that was at the front.
C37_OutWrittenOnlyOnOk ==
    [][\A t \in Consumers :
          /\ (PopReturns(t) /\ result'[t] \in {"TIMEOUT", "SHUTDOWN"}) =>
                (out'[t] = out[t] /\ buffer' = buffer)
          /\ out'[t] # out[t] =>
                /\ PopReturns(t)
                /\ result'[t] = "OK"
                /\ buffer # <<>>
                /\ out'[t] = Head(buffer)]_vars

\* C37 witness: a consumer whose earlier pop returned an item has just had a
\* pop return SHUTDOWN on a queue that holds another item: its out still holds
\* the earlier item and the buffer still holds the other.
C37_Witness ==
    \E t \in Consumers :
        /\ pc[t] = "idle"
        /\ result[t] = "SHUTDOWN"
        /\ out[t] # NoVal
        /\ buffer # <<>>
        /\ out[t] # Head(buffer)
        /\ IsPop(hist[Len(hist)])
        /\ hist[Len(hist)].res = "SHUTDOWN"
        /\ hist[Len(hist)].before = buffer
        /\ \E i \in OkPops : hist[i].val = out[t]

====
